---------------------------- MODULE Spec2Model ----------------------------
(***************************************************************************)
(* State-machine model of the fractal consciousness simulations:           *)
(* ConsciousnessCore, FractalOrchestrator.animate, and the simulations it  *)
(* drives (AI experience, digital ecosystem, neural network, cellular      *)
(* automata).                                                              *)
(*                                                                         *)
(* Numbers.  The program computes in IEEE doubles; the model computes in   *)
(* fixed point.  Unless a definition says otherwise a quantity q of the    *)
(* program is held as the integer 1000*q ("milli"); angles are held in     *)
(* milliradians.  x*y of two milli quantities is (x*y) \div 1000.          *)
(* Math.random() is a draw from a small set of milli values in 0..999.     *)
(* NaN is a reserved integer (see the neural network section).             *)
(***************************************************************************)
EXTENDS Integers, Sequences, FiniteSets, TLC

(***************************************************************************)
(* Bounds of the model (not program constants).                            *)
(***************************************************************************)
MaxTime == 3002          \* SpecEvolve stops calling evolve() at this tick

\* Math.random() outcomes explored in triggerPhaseTransition (milli)
RandomDraws == {0, 999}

(***************************************************************************)
(* Arithmetic helpers.                                                     *)
(***************************************************************************)
Min(a, b) == IF a < b THEN a ELSE b

Max(a, b) == IF a > b THEN a ELSE b

Abs(a) == IF a < 0 THEN -a ELSE a

\* Math.max(lo, Math.min(hi, v))
Clamp(lo, hi, v) == Max(lo, Min(hi, v))

\* product of two milli quantities, rounded toward zero like a truncated double
MulMilli(a, b) == IF a * b >= 0 THEN (a * b) \div 1000 ELSE -((-(a * b)) \div 1000)

PiMilli == 3142          \* Math.PI in milliradians

TwoPiMilli == 6283       \* 2*Math.PI in milliradians

\* sin on [0, pi] by Bhaskara's rational approximation
\*   sin x ~ 16 x (pi - x) / (5 pi^2 - 4 x (pi - x)),  |error| < 0.002
\* x in milliradians, result in milli.
SinHalfTurn(x) ==
    LET p == (x * (PiMilli - x)) \div 100
    IN  (16000 * p) \div (493480 - 4 * p)

\* Math.sin(x): x in milliradians (any sign), result in milli
Sin(x) ==
    LET r == x % TwoPiMilli
    IN  IF r <= PiMilli THEN SinHalfTurn(r) ELSE -SinHalfTurn(r - PiMilli)

\* Math.cos(x) = sin(x + pi/2)
Cos(x) == Sin(x + 1571)

\* largest k with k*k <= n, by bisection on lo..hi
RECURSIVE SqrtBetween(_, _, _)
SqrtBetween(n, lo, hi) ==
    IF lo >= hi THEN lo
    ELSE LET mid == (lo + hi + 1) \div 2
         IN  IF mid * mid <= n THEN SqrtBetween(n, mid, hi)
                               ELSE SqrtBetween(n, lo, mid - 1)

\* Math.sqrt on a non-negative integer, rounded down
ISqrt(n) == SqrtBetween(n, 0, 46340)

(***************************************************************************)
(* ConsciousnessCore (src/fractals/core/consciousness.js)                  *)
(***************************************************************************)
VARIABLES
    parameters,     \* this.parameters: [Params -> milli]
    evolution,      \* this.evolution: time, cycle, phaseShift (mrad), lastTransition
    attractor       \* this.attractor: per parameter frequency, amplitude, harmonics (milli)

coreVars == <<parameters, evolution, attractor>>

Params == {"complexity", "emergence", "coherence", "adaptation"}

\* constructor(): the initial field values
InitialParameters ==
    [p \in Params |->
        CASE p = "complexity" -> 500
          [] p = "emergence"  -> 300
          [] p = "coherence"  -> 700
          [] p = "adaptation" -> 400]

InitialEvolution == [time |-> 0, cycle |-> 0, phaseShift |-> 0, lastTransition |-> 0]

InitialAttractor ==
    [p \in Params |->
        CASE p = "complexity" -> [frequency |-> 700,  amplitude |-> 300, harmonics |-> <<1900, 3100>>]
          [] p = "emergence"  -> [frequency |-> 500,  amplitude |-> 250, harmonics |-> <<2300, 4700>>]
          [] p = "coherence"  -> [frequency |-> 900,  amplitude |-> 200, harmonics |-> <<1700, 2900>>]
          [] p = "adaptation" -> [frequency |-> 1100, amplitude |-> 200, harmonics |-> <<800, 3300>>]]

\* the number of ticks after which evolve() triggers a phase transition:
\* the literal 1500 of "time - lastTransition > 1500"
PhaseTransitionThreshold == 1500

\* the angle t * f of evolve(), t = time * 0.0008, f in milli: milliradians
Angle(time, f) ==
    LET n == time * f * 8
    IN  IF n >= 0 THEN n \div 10000 ELSE -((-n) \div 10000)

\* evolve(), lines 38-54: the value of one parameter at tick `time`,
\* before clamping
AttractorValue(a, time, phaseShift) ==
    LET harmonic(i) == MulMilli(Sin(Angle(time, a.harmonics[i])),
                                MulMilli(a.amplitude, 100 \div i))
    IN  500
        + MulMilli(Sin(Angle(time, a.frequency)), a.amplitude)
        + harmonic(1) + harmonic(2)
        + MulMilli(Cos(Angle(time, a.frequency) + phaseShift), 50)

\* evolve(), line 54: "Clamp to valid range"
EvolvedParameter(a, time, phaseShift) == Clamp(100, 900, AttractorValue(a, time, phaseShift))

\* triggerPhaseTransition(), lines 73-75, for one attractor with the two
\* Math.random() draws rf and ra
PerturbedAttractor(a, rf, ra) ==
    [a EXCEPT !.frequency = a.frequency + MulMilli(rf - 500, 100),
              !.amplitude = Clamp(100, 400, a.amplitude + MulMilli(ra - 500, 50))]

\* triggerPhaseTransition(): the evolution record after a transition at `ev.time`
TriggerPhaseTransition(ev) ==
    [ev EXCEPT !.phaseShift = ev.phaseShift + 1047,     \* Math.PI / 3
               !.cycle = ev.cycle + 1,
               !.lastTransition = ev.time]

\* evolve(), line 58
TransitionDue(ev) == ev.time - ev.lastTransition > PhaseTransitionThreshold

\* evolve(): the core after one call on the core c.  rf, ra: the
\* Math.random() draws of a phase transition, per attractor (unused when no
\* transition is due).
Evolved(c, rf, ra) ==
    LET ev1 == [c.evolution EXCEPT !.time = c.evolution.time + 1]
    IN  [parameters |-> [p \in Params |->
                            EvolvedParameter(c.attractor[p], ev1.time, ev1.phaseShift)],
         evolution |-> IF TransitionDue(ev1) THEN TriggerPhaseTransition(ev1) ELSE ev1,
         attractor |-> IF TransitionDue(ev1)
                       THEN [p \in Params |-> PerturbedAttractor(c.attractor[p], rf[p], ra[p])]
                       ELSE c.attractor]

\* the ConsciousnessCore object as one record
CoreObject == [parameters |-> parameters, evolution |-> evolution, attractor |-> attractor]

\* evolve() called on the core
EvolveCore(rf, ra) ==
    \E c \in {Evolved(CoreObject, rf, ra)} :
        /\ parameters' = c.parameters
        /\ evolution' = c.evolution
        /\ attractor' = c.attractor

\* calculateEntropy(): the standard deviation of the four parameters
calculateEntropy(params) ==
    LET mean == (params["complexity"] + params["emergence"]
                 + params["coherence"] + params["adaptation"]) \div 4
        sq(p) == (params[p] - mean) * (params[p] - mean)
    IN  ISqrt((sq("complexity") + sq("emergence") + sq("coherence") + sq("adaptation")) \div 4)

(***************************************************************************)
(* DigitalEcosystemSimulation (src/unnamed/part_001)                       *)
(*                                                                         *)
(* Energies, resource values and genetic traits are milli; positions and   *)
(* velocities are milli-pixels.  Entities are records, a population is the *)
(* sequence of its entities in array order.                                *)
(***************************************************************************)
VARIABLES
    populations,    \* this.populations: [type -> Seq(entity)]
    environment,    \* this.environment: resources, toxins, temperature, oxygen, nutrients
    ecoConfig,      \* this.config: the two rates update() rewrites
    ecoEvolution,   \* this.evolution: cooperation and competition counters
    graveyard,      \* last position of the entity objects removed from their population
                    \* (a target keeps referring to such an object)
    nextEntityId,   \* ids handed out so far (an id is a fresh random string in the source)
    ecoTick,        \* number of update() calls made (bounds the run)
    ecoTrace        \* the last operation, and what it applied if an update(): the
                    \* pair interactions handled, the births, each with the energies
                    \* read when it ran, and the entities the selection removed

ecoVars == <<populations, environment, ecoConfig, ecoEvolution, graveyard, nextEntityId,
             ecoTick, ecoTrace>>

\* Object.keys(this.populations), in insertion order
TypeOrder == <<"producer", "consumer", "decomposer", "predator", "symbiont">>

EntityTypeNames == {TypeOrder[i] : i \in 1..Len(TypeOrder)}

\* this.entityTypes: energy, speed, size per type
entityTypes ==
    [t \in EntityTypeNames |->
        CASE t = "producer"   -> [energy |-> 50000, speed |-> 500,  size |-> 3000]
          [] t = "consumer"   -> [energy |-> 40000, speed |-> 1200, size |-> 4000]
          [] t = "decomposer" -> [energy |-> 30000, speed |-> 800,  size |-> 2500]
          [] t = "predator"   -> [energy |-> 60000, speed |-> 1500, size |-> 5000]
          [] t = "symbiont"   -> [energy |-> 35000, speed |-> 1000, size |-> 3500]]

entityCount == 20                \* config.entityCount, a bound of the model: 150 in the program

maxAge == 300                    \* config.maxAge

competitionRadius == 50          \* config.competitionRadius (pixels)

cooperationRadius == 30          \* config.cooperationRadius (pixels)

canvasWidth == 800000            \* canvas.width, milli-pixels

canvasHeight == 600000           \* canvas.height, milli-pixels

\* squared distance of two positioned records, in deci-pixels squared
Dist2(a, b) ==
    LET dx == Abs(a.x - b.x) \div 100
        dy == Abs(a.y - b.y) \div 100
    IN  dx * dx + dy * dy

\* "distance < radius", radius in pixels
Within(a, b, radius) == Dist2(a, b) < (radius * 10) * (radius * 10)

\* getAllEntities(): Object.values(this.populations).flat()
RECURSIVE FlatFrom(_, _)
FlatFrom(pops, k) ==
    IF k > Len(TypeOrder) THEN << >>
    ELSE pops[TypeOrder[k]] \o FlatFrom(pops, k + 1)

getAllEntities(pops) == FlatFrom(pops, 1)

\* the entity object with this id: in a population, else a removed one
\* that is still referenced
HasEntity(s, id) ==
    \/ \E i \in 1..Len(getAllEntities(s.pops)) : getAllEntities(s.pops)[i].id = id
    \/ id \in DOMAIN s.graveyard

EntityById(s, id) ==
    LET all == getAllEntities(s.pops)
    IN  IF \E i \in 1..Len(all) : all[i].id = id
        THEN all[CHOOSE i \in 1..Len(all) : all[i].id = id]
        ELSE s.graveyard[id]

NoTarget == [kind |-> "none", ref |-> 0]

\* findNearbyEntities(entity, radius)
findNearbyEntities(s, e, radius) ==
    SelectSeq(getAllEntities(s.pops), LAMBDA o : o.id # e.id /\ Within(e, o, radius))

\* findNearbyResources(entity, radius): indices into environment.resources
findNearbyResources(s, e, radius) ==
    SelectSeq([i \in 1..Len(s.resources) |-> i],
              LAMBDA i : Within(e, s.resources[i], radius) /\ s.resources[i].value > 0)

\* identifyThreats(entity, nearbyEntities)
identifyThreats(e, nearby) ==
    SelectSeq(nearby, LAMBDA o :
        \/ o.type = "predator" /\ e.type # "predator"
        \/ o.genetics.aggression > 700 /\ o.energy > e.energy)

\* updateEntityBehavior(entity), "Decision matrix based on current state":
\* the conditions the priority chain reads (explore is drawn and never read)
Decisions(s, e) ==
    LET nearbyEntities == findNearbyEntities(s, e, 60)
    IN  [seek_food |-> e.energy * 10 < e.maxEnergy * 4
                          /\ Len(findNearbyResources(s, e, 50)) > 0,
         avoid_threats |-> Len(identifyThreats(e, nearbyEntities)) > 0,
         seek_mates |-> e.energy * 10 > e.maxEnergy * 7 /\ e.reproductionCooldown = 0,
         cooperate |-> e.genetics.cooperation > 500 /\ Len(nearbyEntities) > 0,
         compete |-> /\ e.genetics.aggression > 500
                     /\ Len(SelectSeq(nearbyEntities, LAMBDA o : o.type = e.type)) > 2,
         mates |-> Len(SelectSeq(nearbyEntities, LAMBDA o : o.type = e.type /\ o.id # e.id))]

\* the first entity of a list as a target
EntityTarget(q) == IF Len(q) > 0 THEN [kind |-> "entity", ref |-> q[1].id] ELSE NoTarget

\* a priority chain that looks for food before it looks at the threats
updateEntityBehaviorFoodFirst(s, e) ==
    LET nearbyEntities == findNearbyEntities(s, e, 60)
        nearbyResources == findNearbyResources(s, e, 50)
        decisions == Decisions(s, e)
    IN  IF decisions.seek_food
        THEN [e EXCEPT !.currentAction = "foraging",
                       !.target = [kind |-> "resource", ref |-> nearbyResources[1]]]
        ELSE IF decisions.avoid_threats
        THEN [e EXCEPT !.currentAction = "fleeing",
                       !.target = EntityTarget(identifyThreats(e, nearbyEntities))]
        ELSE IF decisions.seek_mates
        THEN IF decisions.mates > 0
             THEN [e EXCEPT !.currentAction = "mating",
                            !.target = EntityTarget(SelectSeq(nearbyEntities,
                                            LAMBDA o : o.type = e.type /\ o.id # e.id))]
             ELSE e
        ELSE IF decisions.cooperate
        THEN [e EXCEPT !.currentAction = "cooperating",
                       !.target = EntityTarget(SelectSeq(nearbyEntities, LAMBDA o : o.type # e.type))]
        ELSE IF decisions.compete
        THEN [e EXCEPT !.currentAction = "competing",
                       !.target = EntityTarget(SelectSeq(nearbyEntities, LAMBDA o : o.type = e.type))]
        ELSE [e EXCEPT !.currentAction = "wandering", !.target = NoTarget]

\* updateEntityBehavior(entity): the decision matrix and its priority chain
updateEntityBehavior(s, e) ==
    LET nearbyEntities == findNearbyEntities(s, e, 60)
        nearbyResources == findNearbyResources(s, e, 50)
        decisions == Decisions(s, e)
    IN  IF decisions.avoid_threats
        THEN [e EXCEPT !.currentAction = "fleeing",
                       !.target = EntityTarget(identifyThreats(e, nearbyEntities))]
        ELSE IF decisions.seek_food
        THEN [e EXCEPT !.currentAction = "foraging",
                       !.target = [kind |-> "resource", ref |-> nearbyResources[1]]]
        ELSE IF decisions.seek_mates
        THEN IF decisions.mates > 0
             THEN [e EXCEPT !.currentAction = "mating",
                            !.target = EntityTarget(SelectSeq(nearbyEntities,
                                            LAMBDA o : o.type = e.type /\ o.id # e.id))]
             ELSE e
        ELSE IF decisions.cooperate
        THEN [e EXCEPT !.currentAction = "cooperating",
                       !.target = EntityTarget(SelectSeq(nearbyEntities, LAMBDA o : o.type # e.type))]
        ELSE IF decisions.compete
        THEN [e EXCEPT !.currentAction = "competing",
                       !.target = EntityTarget(SelectSeq(nearbyEntities, LAMBDA o : o.type = e.type))]
        ELSE [e EXCEPT !.currentAction = "wandering", !.target = NoTarget]

\* a / b rounded toward zero (b > 0)
DivT(a, b) == IF a >= 0 THEN a \div b ELSE -((-a) \div b)

\* the position an entity's target refers to; an entity target is an object
\* reference, readable after the target left its population
TargetPos(s, e) ==
    IF e.target.kind = "resource" THEN s.resources[e.target.ref]
    ELSE EntityById(s, e.target.ref)

\* moveEntity(entity); wx, wy: the two Math.random() draws of the random walk
moveEntity(s, e, wx, wy) ==
    LET \* the entity moved by its velocity, the velocity capped at maxSpeed
        Moved(vx1, vy1, currentSpeed, maxSpeed) ==
            LET vx2 == IF currentSpeed > maxSpeed THEN DivT(vx1 * maxSpeed, currentSpeed) ELSE vx1
                vy2 == IF currentSpeed > maxSpeed THEN DivT(vy1 * maxSpeed, currentSpeed) ELSE vy1
            IN  [e EXCEPT !.vx = vx2, !.vy = vy2,
                          !.x = (e.x + vx2 + canvasWidth) % canvasWidth,
                          !.y = (e.y + vy2 + canvasHeight) % canvasHeight]
        Damped(vx1, vy1) == Moved(vx1, vy1, ISqrt(vx1 * vx1 + vy1 * vy1), e.genetics.speed * 2)
        \* dx, dy and distance in deci-pixels
        Accelerated(dx, dy, distance, speed) ==
            Damped(DivT((e.vx + (IF distance > 0
                                 THEN DivT(DivT(dx * 1000, distance) * speed, 10000) ELSE 0)) * 95, 100),
                   DivT((e.vy + (IF distance > 0
                                 THEN DivT(DivT(dy * 1000, distance) * speed, 10000) ELSE 0)) * 95, 100))
        Toward(dx, dy) ==
            Accelerated(dx, dy, ISqrt(dx * dx + dy * dy),
                        MulMilli(e.genetics.speed, DivT(e.energy * 1000, e.maxEnergy)))
        Aimed(targetX, targetY) == Toward(DivT(targetX - e.x, 100), DivT(targetY - e.y, 100))
        Steered(tp) ==
            Aimed(IF e.currentAction = "fleeing" THEN e.x - (tp.x - e.x) ELSE tp.x,
                  IF e.currentAction = "fleeing" THEN e.y - (tp.y - e.y) ELSE tp.y)
    IN  IF e.target.kind # "none" THEN Steered(TargetPos(s, e))
        ELSE Aimed(e.x + (wx - 500) * 20, e.y + (wy - 500) * 20)

\* handleEnvironmentalEffects, toxin loop: the energy lost to toxins k..
RECURSIVE ToxinLoss(_, _, _)
ToxinLoss(toxins, e, k) ==
    IF k > Len(toxins) THEN 0
    ELSE (IF Dist2(e, toxins[k]) < (toxins[k].radius \div 100) * (toxins[k].radius \div 100)
          THEN MulMilli(toxins[k].toxicity, 100) ELSE 0)
         + ToxinLoss(toxins, e, k + 1)

\* handleEnvironmentalEffects, resource loop from resource k on: the pair
\* <<entity, resources>> after the entity fed on every resource in reach
RECURSIVE Consume(_, _, _)
Consume(e, resources, k) ==
    IF k > Len(resources) THEN <<e, resources>>
    ELSE IF Within(e, resources[k], 10) /\ resources[k].value > 0
         THEN LET consumption == Min(resources[k].value, e.maxEnergy - e.energy)
              IN  Consume([e EXCEPT !.energy = e.energy + MulMilli(consumption, e.genetics.efficiency)],
                          [resources EXCEPT ![k].value = resources[k].value - consumption],
                          k + 1)
         ELSE Consume(e, resources, k + 1)

\* handleEnvironmentalEffects(entity): <<entity, resources>>
handleEnvironmentalEffects(s, e) ==
    LET tempStress == Abs(s.temperature - 500)
        e1 == [e EXCEPT !.energy = e.energy - MulMilli(tempStress, 50)
                                   - (IF s.oxygen < 300 THEN 20 ELSE 0)
                                   - ToxinLoss(s.toxins, e, 1)]
    IN  Consume(e1, s.resources, 1)

\* calculateFitness(entity); lastReproduction is 1 when the entity
\* reproduced within the last minute of wall-clock time, else 0
calculateFitness(e) ==
    DivT(e.energy * 1000, e.maxEnergy) * 20
    + Min(e.age * 10, 1000) * 15
    + (IF e.lastReproduction = 1 THEN 25000 ELSE 0)
    + Cardinality(e.relationships) * 3000
    + e.genetics.efficiency * 10
    + e.genetics.adaptability * 8

\* updateEntityMemory(entity)
updateEntityMemory(e) ==
    LET pushed == Append(e.memory, [action |-> e.currentAction, energy |-> e.energy,
                                    fitness |-> e.fitness])
    IN  [e EXCEPT !.memory = IF Len(pushed) > 20 THEN Tail(pushed) ELSE pushed]

\* updateEntity(entity) for the entity at index i of population t:
\* the simulation record after it
updateEntity(s, t, i, wx, wy) ==
    LET Aged(e0) ==
            [e0 EXCEPT !.age = e0.age + 1,
                       !.energy = e0.energy - (100 + MulMilli(e0.genetics.size, 20)),
                       !.reproductionCooldown = Max(0, e0.reproductionCooldown - 1)]
        Remembered(e4) == updateEntityMemory([e4 EXCEPT !.fitness = calculateFitness(e4)])
        Stored(fed, decided) ==
            [s EXCEPT !.pops[t][i] = Remembered(fed[1]), !.resources = fed[2],
                      !.decisions = Append(@, decided)]
        \* what updateEntityBehavior found and chose for the aged entity e1
        Decided(e1, e2) ==
            [id |-> e1.id, matrix |-> Decisions(s, e1),
             before |-> e1.currentAction, action |-> e2.currentAction]
        Acted(e1, e2) ==
            Stored(handleEnvironmentalEffects(s, moveEntity(s, e2, wx, wy)), Decided(e1, e2))
        Behaved(e1) == Acted(e1, updateEntityBehavior(s, e1))
    IN  Behaved(Aged(s.pops[t][i]))

\* updatePopulations(), one type: update every entity in array order, then
\* keep those with energy > 0 and age < maxAge
RECURSIVE UpdateEach(_, _, _, _, _)
UpdateEach(s, t, i, wx, wy) ==
    IF i > Len(s.pops[t]) THEN s
    ELSE UpdateEach(updateEntity(s, t, i, wx, wy), t, i + 1, wx, wy)

Survives(e) == e.energy > 0 /\ e.age < maxAge

FilterPopulation(s, t) ==
    LET old == s.pops[t]
        kept == SelectSeq(old, Survives)
        pops1 == [s.pops EXCEPT ![t] = kept]
        gone == {k \in 1..Len(old) : ~Survives(old[k])}
        buried == {old[k].id : k \in gone}
    IN  [s EXCEPT !.pops = pops1,
                  !.graveyard = [id \in (DOMAIN s.graveyard) \cup buried |->
                                    IF id \in buried
                                    THEN LET o == old[CHOOSE k \in gone : old[k].id = id]
                                         IN  [x |-> o.x, y |-> o.y]
                                    ELSE s.graveyard[id]]]

\* updatePopulations(): the types in key order
RECURSIVE UpdateTypes(_, _, _, _)
UpdateTypes(s, k, wx, wy) ==
    IF k > Len(TypeOrder) THEN s
    ELSE UpdateTypes(FilterPopulation(UpdateEach(s, TypeOrder[k], 1, wx, wy), TypeOrder[k]),
                     k + 1, wx, wy)

updatePopulations(s, wx, wy) == UpdateTypes(s, 1, wx, wy)

\* the populations whose entities, in getAllEntities() order, are `all`
\* (handleInteractions mutates the entity objects the populations hold)
RECURSIVE OffsetOf(_, _)
OffsetOf(pops, k) == IF k <= 1 THEN 0 ELSE Len(pops[TypeOrder[k - 1]]) + OffsetOf(pops, k - 1)

TypeIndex(t) == CHOOSE k \in 1..Len(TypeOrder) : TypeOrder[k] = t

WriteBack(pops, all) ==
    [t \in EntityTypeNames |->
        SubSeq(all, OffsetOf(pops, TypeIndex(t)) + 1, OffsetOf(pops, TypeIndex(t)) + Len(pops[t]))]

predatorTypes == {"predator"}

preyTypes == {"producer", "consumer", "decomposer"}

\* handleEntityInteraction(entity1, entity2, distance), competition block:
\* "type equal and distance < competitionRadius / 2"
CompetitionApplies(e1, e2) ==
    e1.type = e2.type /\ Dist2(e1, e2) * 4 < (competitionRadius * 10) * (competitionRadius * 10)

\* the blended aggression scalar when the block applies, else 0
CompetitionOf(e1, e2) ==
    IF CompetitionApplies(e1, e2)
    THEN (e1.genetics.aggression + e2.genetics.aggression) \div 2 ELSE 0

\* the energy each of the two loses by competition
CompetitionPenalty(e1, e2) == MulMilli(CompetitionOf(e1, e2), 50)

\* a cooperation block that does not look at the types of the two
CooperationOfAnyType(e1, e2) ==
    LET cooperation == (e1.genetics.cooperation + e2.genetics.cooperation) \div 2
    IN  IF Within(e1, e2, cooperationRadius) /\ cooperation > 300
        THEN cooperation ELSE 0

\* handleEntityInteraction, cooperation block: the blended cooperation
\* scalar when the block applies, else 0
CooperationOf(e1, e2) ==
    LET cooperation == (e1.genetics.cooperation + e2.genetics.cooperation) \div 2
    IN  IF e1.type # e2.type /\ Within(e1, e2, cooperationRadius) /\ cooperation > 300
        THEN cooperation ELSE 0

\* the energy each of the two gains by cooperation
CooperationGain(e1, e2) == MulMilli(CooperationOf(e1, e2), 30)

\* handlePredatorPrey: which of the two is the predator (1, 2, or 0 for none)
PredatorOf(e1, e2) ==
    IF e1.type \in predatorTypes /\ e2.type \in preyTypes THEN 1
    ELSE IF e2.type \in predatorTypes /\ e1.type \in preyTypes THEN 2
    ELSE 0

\* handlePredatorPrey: "distance < predator.genetics.size * 3"
InHuntRange(predator, prey) ==
    LET reach == (predator.genetics.size * 3) \div 100       \* deci-pixels
    IN  Dist2(predator, prey) < reach * reach

\* handlePredatorPrey: the chance of the hunt, huntSuccess * 0.1, milli
HuntChance(predator, prey) ==
    DivT(DivT(predator.genetics.speed * 1000, prey.genetics.speed + 100), 10)

\* the share of the prey's energy that changes hands, and the share the prey keeps
HuntTransfer(preyEnergy) == DivT(preyEnergy * 3, 10)

\* a hunt that leaves the prey the other 70% of its energy
HuntRemainderComplement(preyEnergy) == DivT(preyEnergy * 7, 10)

HuntRemainder(preyEnergy) == DivT(preyEnergy * 3, 10)

\* handleEntityInteraction(entity1, entity2, distance) for the entities at
\* i < j of `all`, with the hunt draw h: the record
\*   all: the entities after it, log: what was applied to the pair
handleEntityInteraction(all, i, j, h) ==
    LET \* handlePredatorPrey on the pair a1, b1 that the two blocks left
        Hunt(a0, b0, a1, b1, who, predator, prey) ==
            LET attempt == who # 0 /\ InHuntRange(predator, prey)
                hunted == attempt /\ h < HuntChance(predator, prey)
                predator2 == IF hunted
                             THEN [predator EXCEPT !.energy = predator.energy + HuntTransfer(prey.energy)]
                             ELSE predator
                prey2 == IF hunted THEN [prey EXCEPT !.energy = HuntRemainder(prey.energy)] ELSE prey
            IN  [all |-> [all EXCEPT ![i] = IF who = 2 THEN prey2 ELSE predator2,
                                     ![j] = IF who = 2 THEN predator2 ELSE prey2],
                 competition |-> CompetitionOf(a0, b0),
                 cooperation |-> CooperationOf(a0, b0),
                 log |-> [a |-> a0.id, b |-> b0.id, dist2 |-> Dist2(a0, b0),
                          sameType |-> a0.type = b0.type,
                          competing |-> CompetitionApplies(a0, b0),
                          affinity |-> (a0.genetics.cooperation + b0.genetics.cooperation) \div 2,
                          aggression |-> (a0.genetics.aggression + b0.genetics.aggression) \div 2,
                          penalty |-> CompetitionPenalty(a0, b0), gain |-> CooperationGain(a0, b0),
                          attempt |-> attempt, hunted |-> hunted,
                          predator |-> predator.id, prey |-> prey.id,
                          preyBefore |-> IF who = 2 THEN a0.energy ELSE b0.energy,
                          preyAtHunt |-> prey.energy,
                          predatorAtHunt |-> predator.energy,
                          predatorAfter |-> predator2.energy,
                          preyAfter |-> prey2.energy]]
        Roles(a0, b0, a1, b1, who) ==
            Hunt(a0, b0, a1, b1, who, IF who = 2 THEN b1 ELSE a1, IF who = 2 THEN a1 ELSE b1)
        Exchanged(a0, b0, a1, b1) == Roles(a0, b0, a1, b1, PredatorOf(a1, b1))
        \* the competition and the cooperation block on one of the two
        After(e, other, penalty, gain, newLink) ==
            [e EXCEPT !.energy = e.energy - penalty + gain,
                      !.relationships = IF newLink THEN e.relationships \cup {other.id}
                                        ELSE e.relationships]
        Blocks(a0, b0, penalty, gain, newLink) ==
            Exchanged(a0, b0, After(a0, b0, penalty, gain, newLink),
                      After(b0, a0, penalty, gain, newLink))
        Pair(a0, b0) ==
            Blocks(a0, b0, CompetitionPenalty(a0, b0), CooperationGain(a0, b0),
                   CooperationOf(a0, b0) > 0 /\ b0.id \notin a0.relationships)
    IN  Pair(all[i], all[j])

\* handleInteractions(): every pair i < j of getAllEntities() closer than
\* competitionRadius, in loop order.  acc: all, competition, cooperation, log
RECURSIVE InteractFrom(_, _, _, _)
InteractFrom(acc, i, j, h) ==
    LET Added(r) == [all |-> r.all,
                     competition |-> acc.competition + r.competition,
                     cooperation |-> acc.cooperation + r.cooperation,
                     log |-> Append(acc.log, r.log)]
    IN  IF i > Len(acc.all) THEN acc
        ELSE IF j > Len(acc.all) THEN InteractFrom(acc, i + 1, i + 2, h)
        ELSE IF Within(acc.all[i], acc.all[j], competitionRadius)
             THEN InteractFrom(Added(handleEntityInteraction(acc.all, i, j, h)), i, j + 1, h)
             ELSE InteractFrom(acc, i, j + 1, h)

handleInteractions(s, h) ==
    LET Applied(r) == [s EXCEPT !.pops = WriteBack(s.pops, r.all),
                                !.competition = r.competition,
                                !.cooperation = r.cooperation,
                                !.interactions = r.log]
    IN  Applied(InteractFrom([all |-> getAllEntities(s.pops), competition |-> s.competition,
                              cooperation |-> s.cooperation, log |-> << >>], 1, 2, h))

\* createEntity(type, parent), genetics without a parent or when the
\* mutation draw fails: fresh genetics from the type's base stats.
\* g: the Math.random() draw of the traits
FreshGenetics(type, g) ==
    LET base == entityTypes[type]
        spread == 800 + MulMilli(g, 400)
    IN  [speed |-> MulMilli(base.speed, spread),
         size |-> MulMilli(base.size, spread),
         energy |-> MulMilli(base.energy, spread),
         aggression |-> g \div 2,
         cooperation |-> g \div 2,
         adaptability |-> g,
         efficiency |-> g]

\* createEntity(type, parent), genetics when the mutation draw succeeds:
\* the parent's genetics with five traits perturbed
InheritedGenetics(pg, g) ==
    [pg EXCEPT !.speed = Max(100, pg.speed + MulMilli(g - 500, 200)),
               !.size = Max(1000, pg.size + MulMilli(g - 500, 500)),
               !.energy = Max(10000, pg.energy + (g - 500) * 10),
               !.aggression = Clamp(0, 1000, pg.aggression + MulMilli(g - 500, 100)),
               !.cooperation = Clamp(0, 1000, pg.cooperation + MulMilli(g - 500, 100))]

\* createEntity(type, parent = null).  hasParent tells whether a parent is
\* given; d: the draws (createMutate, gene, pos, walk)
createEntity(id, type, hasParent, parent, mutationRate, d) ==
    LET genetics == IF hasParent /\ d.createMutate < mutationRate
                    THEN InheritedGenetics(parent.genetics, d.gene)
                    ELSE FreshGenetics(type, d.gene)
    IN  [id |-> id, type |-> type,
         x |-> d.pos.x, y |-> d.pos.y,
         vx |-> (d.wx - 500) * 2, vy |-> (d.wy - 500) * 2,
         energy |-> genetics.energy,
         maxEnergy |-> (genetics.energy * 3) \div 2,
         age |-> 0, fitness |-> 0,
         genetics |-> genetics,
         relationships |-> {},
         memory |-> << >>,
         currentAction |-> "wandering",
         target |-> NoTarget,
         reproductionCooldown |-> 0,
         lastReproduction |-> 0,
         evolution |-> [generation |-> IF hasParent THEN parent.evolution.generation + 1 ELSE 0,
                        lineage |-> IF hasParent THEN parent.evolution.lineage + 1 ELSE 0,
                        mutations |-> IF hasParent THEN parent.evolution.mutations ELSE 0]]

Traits == {"speed", "size", "energy", "aggression", "cooperation", "adaptability", "efficiency"}

\* a createOffspring that keeps the first parent's genetics
MixedGeneticsFirstParentOnly(g1, g2) == g1

\* createOffspring, "Mix genetics from both parents"
MixedGenetics(g1, g2) == [t \in Traits |-> (g1[t] + g2[t]) \div 2]

\* createOffspring, "Mutation": every trait scaled by 1 + (random - 0.5) * 0.1
MutatedGenetics(g, r) == [t \in Traits |-> Max(100, MulMilli(g[t], 1000 + MulMilli(r - 500, 100)))]

\* createOffspring(parent1, parent2)
createOffspring(id, parent1, parent2, mutationRate, d) ==
    LET offspring == createEntity(id, parent1.type, TRUE, parent1, mutationRate, d)
        mixed == MixedGenetics(parent1.genetics, parent2.genetics)
        mutate == d.offMutate < mutationRate
    IN  [offspring EXCEPT
            !.genetics = IF mutate THEN MutatedGenetics(mixed, d.gene) ELSE mixed,
            !.evolution.mutations = IF mutate THEN @ + 1 ELSE @,
            !.x = (parent1.x + parent2.x) \div 2 + (d.wx - 500) * 20,
            !.y = (parent1.y + parent2.y) \div 2 + (d.wy - 500) * 20]

\* a filter that lets an entity reproduce while its cooldown runs
EligibleIgnoringCooldown(e) ==
    /\ e.energy * 10 > e.maxEnergy * 8
    /\ e.age > 50

\* handleReproduction, the filter of one population
Eligible(e) ==
    /\ e.energy * 10 > e.maxEnergy * 8
    /\ e.reproductionCooldown = 0
    /\ e.age > 50

\* a reproduction that costs half of the parent's energy
ReproductionCostHalf(energy) == DivT(energy, 2)

\* handleReproduction, "Reproduction cost": parent.energy *= 0.7
ReproductionCost(energy) == DivT(energy * 7, 10)

ReproductionCooldown == 100

\* handleReproduction, one population: the reproducers (indices into the
\* population as it is when the filter runs) taken in pairs from pair k on
RECURSIVE ReproducePairs(_, _, _, _, _)
ReproducePairs(s, t, reproducers, k, d) ==
    IF k + 1 > Len(reproducers) THEN s
    ELSE IF d.repro < s.reproductionRate
         THEN LET i1 == reproducers[k]
                  i2 == reproducers[k + 1]
                  parent1 == s.pops[t][i1]
                  parent2 == s.pops[t][i2]
                  offspring == createOffspring(s.nextId, parent1, parent2, s.mutationRate, d)
                  spent(e) == [e EXCEPT !.energy = ReproductionCost(e.energy),
                                        !.reproductionCooldown = ReproductionCooldown,
                                        !.lastReproduction = 1]
                  pop1 == Append([s.pops[t] EXCEPT ![i1] = spent(parent1), ![i2] = spent(parent2)],
                                 offspring)
              IN  ReproducePairs([s EXCEPT !.pops[t] = pop1,
                                           !.nextId = s.nextId + 1,
                                           !.births = Append(s.births,
                                                [parent1 |-> parent1.id, parent2 |-> parent2.id,
                                                 offspring |-> offspring.id, type |-> t,
                                                 energy1 |-> parent1.energy,
                                                 energy2 |-> parent2.energy,
                                                 genetics1 |-> parent1.genetics,
                                                 genetics2 |-> parent2.genetics,
                                                 mutated |-> d.offMutate < s.mutationRate,
                                                 sizeBefore |-> Len(s.pops[t])])],
                                 t, reproducers, k + 2, d)
         ELSE ReproducePairs(s, t, reproducers, k + 2, d)

RECURSIVE ReproduceTypes(_, _, _)
ReproduceTypes(s, k, d) ==
    IF k > Len(TypeOrder) THEN s
    ELSE LET t == TypeOrder[k]
             reproducers == SelectSeq([i \in 1..Len(s.pops[t]) |-> i],
                                      LAMBDA i : Eligible(s.pops[t][i]))
         IN  ReproduceTypes(ReproducePairs(s, t, reproducers, 1, d), k + 1, d)

\* the populations as handleReproduction() finds them: of every entity
\* the fields its filter reads
Census(pops) ==
    [t \in EntityTypeNames |->
        [i \in 1..Len(pops[t]) |->
            [id |-> pops[t][i].id, energy |-> pops[t][i].energy,
             maxEnergy |-> pops[t][i].maxEnergy,
             reproductionCooldown |-> pops[t][i].reproductionCooldown,
             age |-> pops[t][i].age]]]

\* handleReproduction()
handleReproduction(s, d) == ReproduceTypes([s EXCEPT !.census = Census(s.pops)], 1, d)


\* handleSelection(): the per-type cap,
\* Math.floor(entityCount / number of types) * 1.5
maxPopulation == ((entityCount \div Len(TypeOrder)) * 3) \div 2

\* Array.prototype.sort((a, b) => b.fitness - a.fitness): stable, by
\* descending fitness; insertion of e into a sorted sequence
RECURSIVE InsertByFitnessAscending(_, _)
InsertByFitnessAscending(sorted, e) ==
    IF sorted = << >> THEN <<e>>
    ELSE IF sorted[Len(sorted)].fitness <= e.fitness THEN Append(sorted, e)
    ELSE Append(InsertByFitnessAscending(SubSeq(sorted, 1, Len(sorted) - 1), e),
                sorted[Len(sorted)])

RECURSIVE InsertByFitness(_, _)
InsertByFitness(sorted, e) ==
    IF sorted = << >> THEN <<e>>
    ELSE IF sorted[Len(sorted)].fitness >= e.fitness THEN Append(sorted, e)
    ELSE Append(InsertByFitness(SubSeq(sorted, 1, Len(sorted) - 1), e), sorted[Len(sorted)])

RECURSIVE SortByFitness(_, _)
SortByFitness(pop, n) ==
    IF n = 0 THEN << >> ELSE InsertByFitness(SortByFitness(pop, n - 1), pop[n])

\* population.sort(...) and slice(0, maxPopulation): the entities kept and
\* those left out
Selected(pop) ==
    [kept |-> SubSeq(pop, 1, maxPopulation), culled |-> SubSeq(pop, maxPopulation + 1, Len(pop))]

\* handleSelection(); s.culled: the entities each population lost
handleSelection(s) ==
    LET selection == [t \in EntityTypeNames |->
            IF Len(s.pops[t]) > maxPopulation
            THEN Selected(SortByFitness(s.pops[t], Len(s.pops[t])))
            ELSE [kept |-> s.pops[t], culled |-> << >>]]
    IN  [s EXCEPT !.pops = [t \in EntityTypeNames |-> selection[t].kept],
                  !.culled = [t \in EntityTypeNames |-> selection[t].culled]]

ChangeKinds == <<"resource_bloom", "toxin_spill", "temperature_shift", "oxygen_depletion">>

\* introduceEnvironmentalChange(); d.changeKind: the change drawn,
\* d.pos: the position draw, d.gene: the draw of the temperature shift
introduceEnvironmentalChange(s, d) ==
    CASE d.changeKind = "resource_bloom" ->
            [s EXCEPT !.resources = @ \o [i \in 1..10 |->
                [x |-> d.pos.x, y |-> d.pos.y, value |-> 40000, regeneration |-> 200]]]
      [] d.changeKind = "toxin_spill" ->
            [s EXCEPT !.toxins = Append(@, [x |-> d.pos.x, y |-> d.pos.y, radius |-> 80000,
                                            toxicity |-> 800, decay |-> 10])]
      [] d.changeKind = "temperature_shift" ->
            [s EXCEPT !.temperature = Clamp(0, 1000, @ + MulMilli(d.gene - 500, 400))]
      [] d.changeKind = "oxygen_depletion" ->
            [s EXCEPT !.oxygen = MulMilli(@, 700)]

\* updateEnvironment(); d.clock: the three oscillator values at Date.now()
updateEnvironment(s, d) ==
    LET regenerated == [i \in 1..Len(s.resources) |->
                           [s.resources[i] EXCEPT !.value = Min(30000, @ + s.resources[i].regeneration)]]
        decayed == [i \in 1..Len(s.toxins) |->
                       [s.toxins[i] EXCEPT !.toxicity = @ - s.toxins[i].decay,
                                           !.radius = (@ * 99) \div 100]]
        s1 == [s EXCEPT !.resources = regenerated,
                        !.temperature = 500 + MulMilli(MulMilli(d.clock.temperature, 300),
                                                       s.params["coherence"]),
                        !.oxygen = 600 + MulMilli(MulMilli(d.clock.oxygen, 200),
                                                  s.params["emergence"]),
                        !.nutrients = 500 + MulMilli(MulMilli(d.clock.nutrients, 300),
                                                     s.params["complexity"]),
                        !.toxins = SelectSeq(decayed, LAMBDA x : x.toxicity > 100 /\ x.radius > 5000)]
    IN  IF d.envChange < 10 THEN introduceEnvironmentalChange(s1, d) ELSE s1

\* adaptToConsciousness()
adaptToConsciousness(s, d) ==
    LET s1 == [s EXCEPT !.mutationRate = 50 + MulMilli(s.params["complexity"], 100),
                        !.reproductionRate = 1 + MulMilli(s.params["emergence"], 5),
                        !.nutrients = IF s.params["coherence"] > 800
                                      THEN Min(1000, MulMilli(@, 1020)) ELSE @]
    IN  IF s.params["adaptation"] > 700 THEN introduceEnvironmentalChange(s1, d) ELSE s1

\* updateEvolutionMetrics(), "Genetic diversity": the standard deviation of
\* one trait over the entities (deviations taken in centi to bound the squares)
RECURSIVE SumOver(_, _, _)
SumOver(all, F(_), k) == IF k > Len(all) THEN 0 ELSE F(all[k]) + SumOver(all, F, k + 1)

TraitDeviation(all, trait) ==
    LET mean == SumOver(all, LAMBDA e : e.genetics[trait], 1) \div Len(all)
        sq(e) == (DivT(e.genetics[trait] - mean, 10)) * (DivT(e.genetics[trait] - mean, 10))
    IN  ISqrt(SumOver(all, sq, 1) \div Len(all)) * 10

\* updateEvolutionMetrics()
updateEvolutionMetrics(s) ==
    LET all == getAllEntities(s.pops)
    IN  IF Len(all) = 0 THEN s
        ELSE [s EXCEPT
                !.avgFitness = SumOver(all, LAMBDA e : e.fitness, 1) \div Len(all),
                !.diversity = (TraitDeviation(all, "speed") + TraitDeviation(all, "size")
                               + TraitDeviation(all, "energy") + TraitDeviation(all, "aggression")
                               + TraitDeviation(all, "cooperation")) \div 5,
                !.complexity = (SumOver(all, LAMBDA e : Cardinality(e.relationships), 1) * 1000)
                               \div Len(all),
                !.cooperation = (@ * 95) \div 100,
                !.competition = (@ * 95) \div 100]

\* the simulation object as one record; params: the parameters of the
\* ConsciousnessCore it reads through this.consciousness.getState()
EcoObject(params) ==
    [params |-> params,
     pops |-> populations,
     resources |-> environment.resources, toxins |-> environment.toxins,
     temperature |-> environment.temperature, oxygen |-> environment.oxygen,
     nutrients |-> environment.nutrients,
     mutationRate |-> ecoConfig.mutationRate, reproductionRate |-> ecoConfig.reproductionRate,
     cooperation |-> ecoEvolution.cooperation, competition |-> ecoEvolution.competition,
     avgFitness |-> ecoEvolution.avgFitness, diversity |-> ecoEvolution.diversity,
     complexity |-> ecoEvolution.complexity,
     graveyard |-> graveyard, nextId |-> nextEntityId,
     interactions |-> << >>, births |-> << >>, decisions |-> << >>,
     census |-> [t \in EntityTypeNames |-> << >>],
     culled |-> [t \in EntityTypeNames |-> << >>]]

(***************************************************************************)
(* Bounds of the ecosystem runs.                                           *)
(***************************************************************************)
MaxEcoTicks == 2         \* update() calls per run

\* the Math.random() and Date.now() outcomes of one update().  Every draw of
\* one kind within an update takes the same value.
BaseDraws ==
    [wx |-> 500, wy |-> 500, hunt |-> 999,
     clock |-> [temperature |-> 0, oxygen |-> 1000, nutrients |-> 0],
     envChange |-> 999, changeKind |-> "resource_bloom",
     pos |-> [x |-> 400000, y |-> 300000],
     gene |-> 500, repro |-> 999, createMutate |-> 999, offMutate |-> 999]

DrawProfiles ==
    { BaseDraws,
      [BaseDraws EXCEPT !.hunt = 0],
      [BaseDraws EXCEPT !.repro = 0],
      [BaseDraws EXCEPT !.repro = 0, !.offMutate = 0, !.gene = 999],
      [BaseDraws EXCEPT !.repro = 0, !.createMutate = 0, !.gene = 0],
      [BaseDraws EXCEPT !.wx = 0, !.wy = 999],
      [BaseDraws EXCEPT !.clock = [temperature |-> 1000, oxygen |-> -1000, nutrients |-> 1000]],
      [BaseDraws EXCEPT !.envChange = 0, !.changeKind = "resource_bloom"],
      [BaseDraws EXCEPT !.envChange = 0, !.changeKind = "toxin_spill"],
      [BaseDraws EXCEPT !.envChange = 0, !.changeKind = "temperature_shift", !.gene = 999],
      [BaseDraws EXCEPT !.envChange = 0, !.changeKind = "oxygen_depletion"] }

\* constructor(): environment, config and evolution fields
InitialEnvironment ==
    [resources |-> << >>, toxins |-> << >>, temperature |-> 500, oxygen |-> 800, nutrients |-> 600]

InitialEcoConfig == [mutationRate |-> 100, reproductionRate |-> 3]

InitialEcoEvolution ==
    [cooperation |-> 0, competition |-> 0, avgFitness |-> 0, diversity |-> 0, complexity |-> 0]

EmptyPopulations == [t \in EntityTypeNames |-> << >>]

\* an entity as createEntity(type) made it (trait draw g, position x, y in
\* pixels), later in its life: `age` updates old and with `fullness`
\* thousandths of its maxEnergy left
Seed(id, type, x, y, g, age, fullness) ==
    LET e == createEntity(id, type, FALSE, [genetics |-> FreshGenetics(type, g)], 0,
                          [BaseDraws EXCEPT !.gene = g, !.pos = [x |-> x * 1000, y |-> y * 1000]])
    IN  [e EXCEPT !.age = age, !.energy = MulMilli(e.maxEnergy, fullness)]

GeneDraws == {0, 999}

SeedAges == {0, 100}

SeedFullness == {667, 950}

\* a resource patch as initializeEnvironment() makes one
ResourceAt(x, y) == [x |-> x * 1000, y |-> y * 1000, value |-> 20000, regeneration |-> 100]

\* the populations a run starts from: two or three entities close enough
\* to interact, the rest of the world empty
SeedPopulations ==
    { [EmptyPopulations EXCEPT !["predator"] = <<Seed(1, "predator", 400, 300, g1, a, f)>>,
                               !["producer"] = <<Seed(2, "producer", 410, 300, g2, a, f)>>]
        : g1 \in GeneDraws, g2 \in GeneDraws, a \in SeedAges, f \in SeedFullness }
    \cup
    { [EmptyPopulations EXCEPT !["producer"] = <<Seed(1, "producer", 400, 300, g1, a, f),
                                                 Seed(2, "producer", 400 + gap, 300, g2, a, f)>>]
        : g1 \in GeneDraws, g2 \in GeneDraws, a \in SeedAges, f \in SeedFullness, gap \in {0, 20, 40} }
    \cup
    { [EmptyPopulations EXCEPT !["consumer"] = <<Seed(1, "consumer", 400, 300, g1, a, f)>>,
                               !["symbiont"] = <<Seed(2, "symbiont", 420, 300, g2, a, f)>>,
                               !["decomposer"] = <<Seed(3, "decomposer", 405, 300, g2, a, f)>>]
        : g1 \in GeneDraws, g2 \in GeneDraws, a \in SeedAges, f \in SeedFullness }

\* a population at the cap of handleSelection(), its entities out of each
\* other's reach, the first two ready to reproduce
CrowdedPopulations ==
    { [EmptyPopulations EXCEPT ![type] =
            [i \in 1..maxPopulation |->
                Seed(i, type, 40 + 60 * ((i - 1) % 13), 60 + 120 * ((i - 1) \div 13), g, 100,
                     IF i <= 2 THEN 950 ELSE 667)]]
        : type \in {"producer"}, g \in GeneDraws }

EmptyEcoTrace ==
    [op |-> "", interactions |-> << >>, births |-> << >>, decisions |-> << >>,
     census |-> [t \in EntityTypeNames |-> << >>],
     culled |-> [t \in EntityTypeNames |-> << >>]]

InitEco ==
    /\ populations \in SeedPopulations
    /\ environment = [InitialEnvironment EXCEPT !.resources = <<ResourceAt(402, 300)>>]
    /\ ecoConfig = InitialEcoConfig
    /\ ecoEvolution = InitialEcoEvolution
    /\ graveyard = << >>
    /\ nextEntityId = 4
    /\ ecoTick = 0
    /\ ecoTrace = EmptyEcoTrace

\* no ecosystem simulation is running
IdleEco ==
    /\ populations = EmptyPopulations
    /\ environment = InitialEnvironment
    /\ ecoConfig = InitialEcoConfig
    /\ ecoEvolution = InitialEcoEvolution
    /\ graveyard = << >>
    /\ nextEntityId = 1
    /\ ecoTick = 0
    /\ ecoTrace = EmptyEcoTrace

\* DigitalEcosystemSimulation.update() with the draws d, the core's
\* parameters being params: the seven steps in the order of the source,
\* each on the simulation record the step before left
EcoUpdate(params, d) ==
    \E s1 \in {updateEnvironment(EcoObject(params), d)} :
    \E s2 \in {updatePopulations(s1, d.wx, d.wy)} :
    \E s3 \in {handleInteractions(s2, d.hunt)} :
    \E s4 \in {handleReproduction(s3, d)} :
    \E s5 \in {handleSelection(s4)} :
    \E s6 \in {updateEvolutionMetrics(s5)} :
    \E s \in {adaptToConsciousness(s6, d)} :
        /\ populations' = s.pops
        /\ environment' = [resources |-> s.resources, toxins |-> s.toxins,
                           temperature |-> s.temperature, oxygen |-> s.oxygen,
                           nutrients |-> s.nutrients]
        /\ ecoConfig' = [mutationRate |-> s.mutationRate, reproductionRate |-> s.reproductionRate]
        /\ ecoEvolution' = [cooperation |-> s.cooperation, competition |-> s.competition,
                            avgFitness |-> s.avgFitness, diversity |-> s.diversity,
                            complexity |-> s.complexity]
        /\ graveyard' = s.graveyard
        /\ nextEntityId' = s.nextId
        /\ ecoTick' = ecoTick + 1
        /\ ecoTrace' = [op |-> "update", interactions |-> s.interactions,
                        births |-> s.births, decisions |-> s.decisions,
                        census |-> s.census, culled |-> s.culled]

(***************************************************************************)
(* NeuralNode (src/unnamed/part_004) and NeuralNetworkSimulation           *)
(* (src/fractals/simulations/neural-network.js)                            *)
(*                                                                         *)
(* this.nodes is a function from node id to node record; a node's          *)
(* connections a function from target id to connection record.  Maps are   *)
(* walked in ascending id order, which is their insertion order for nodes. *)
(* A number that is NaN in the program is the value NaN below; arithmetic  *)
(* on it yields NaN and every comparison with it is false.                 *)
(***************************************************************************)
VARIABLES
    nodes,          \* this.nodes
    neuralMetrics,  \* this.metrics
    neuralTick      \* number of update() calls made (bounds the run)

neuralVars == <<nodes, neuralMetrics, neuralTick>>

\* the result of 0 / 0 in calculateMemoryInfluence, and what follows from it
NaN == -1000000000

IsNaN(v) == v = NaN

Plus(a, b) == IF IsNaN(a) \/ IsNaN(b) THEN NaN ELSE a + b

Times(a, b) == IF IsNaN(a) \/ IsNaN(b) THEN NaN ELSE MulMilli(a, b)

Gt(a, b) == ~IsNaN(a) /\ ~IsNaN(b) /\ a > b

Lt(a, b) == ~IsNaN(a) /\ ~IsNaN(b) /\ a < b

\* the least number of nodes evolveNetwork() keeps: half of config.nodeCount,
\* 75 of 150 in the program
minNodes == 3

nodeCount == 2 * minNodes        \* config.nodeCount

maxConnections == 8              \* config.maxConnections

\* the elements of a finite set of integers in ascending order
RECURSIVE Ascending(_)
Ascending(S) ==
    IF S = {} THEN << >>
    ELSE LET m == CHOOSE x \in S : \A y \in S : x <= y
         IN  <<m>> \o Ascending(S \ {m})

\* 1 / (1 + Math.exp(-x)) for x >= 0, linear between the values at the
\* integers 0..6; x and result in milli
SigmoidKnots == <<500, 731, 881, 953, 982, 993, 998, 999>>

SigmoidUpper(x) ==
    IF x >= 7000 THEN 1000
    ELSE LET k == x \div 1000
         IN  SigmoidKnots[k + 1] + ((SigmoidKnots[k + 2] - SigmoidKnots[k + 1]) * (x % 1000)) \div 1000

Sigmoid(x) ==
    IF IsNaN(x) THEN NaN
    ELSE IF x >= 0 THEN SigmoidUpper(x) ELSE 1000 - SigmoidUpper(-x)

\* sum of F over the elements of a sequence, NaN-aware
RECURSIVE PlusOver(_, _, _)
PlusOver(q, F(_), k) == IF k > Len(q) THEN 0 ELSE Plus(F(q[k]), PlusOver(q, F, k + 1))

\* calculateMemoryInfluence()
calculateMemoryInfluence(n) ==
    LET h == n.activationHistory
        recentHistory == SubSeq(h, Max(1, Len(h) - 4), Len(h))
        m == Len(recentHistory)
        \* reduce: the sum of the successive differences, from 0
        sum == PlusOver([i \in 1..(m - 1) |-> Plus(recentHistory[i + 1], -recentHistory[i])],
                        LAMBDA v : v, 1)
        trend == IF m - 1 = 0 THEN NaN                  \* one entry: sum is 0, and 0 / 0
                 ELSE IF IsNaN(sum) THEN NaN ELSE DivT(sum, m - 1)
        learningBoost == Min(3, Len(n.learningEvents)) * 50
    IN  IF Len(h) = 0 THEN 0
        ELSE IF IsNaN(trend) THEN NaN ELSE DivT(trend, 10) + learningBoost

\* the targets of a node's connections that resolve to a node
Resolvable(ns, n) == Ascending({t \in DOMAIN n.connections : t \in DOMAIN ns})

\* updateActivation(nodes, time) of node id: the nodes after it
updateActivation(ns, id, time) ==
    LET n == ns[id]
        targets == Resolvable(ns, n)
        activeConnections == Len(targets)
        inputSum == PlusOver(targets, LAMBDA t : Times(ns[t].activation, n.connections[t].strength), 1)
        connections1 == [t \in DOMAIN n.connections |->
                            IF t \in DOMAIN ns
                            THEN [n.connections[t] EXCEPT !.pairs = Min(10, @ + 1), !.age = @ + 1]
                            ELSE n.connections[t]]
        autonomousInput == MulMilli(Sin(time * n.rate + n.phase), 500)
        memoryInfluence == calculateMemoryInfluence(n)
        mean == IF IsNaN(inputSum) THEN NaN ELSE DivT(inputSum, Max(1, activeConnections))
        totalInput == IF activeConnections > 0
                      THEN Plus(Plus(mean, autonomousInput), Plus(memoryInfluence, -2000))
                      ELSE Plus(autonomousInput, memoryInfluence)
        newActivation == Sigmoid(totalInput)
        activation == IF IsNaN(n.activation) \/ IsNaN(newActivation) THEN NaN
                      ELSE (n.activation + 9 * newActivation) \div 10
        pushed == Append(n.activationHistory, activation)
    IN  [ns EXCEPT ![id] = [n EXCEPT !.age = @ + 1,
                                     !.connections = connections1,
                                     !.activation = activation,
                                     !.activationHistory = IF Len(pushed) > 50 THEN Tail(pushed) ELSE pushed,
                                     !.lastActivation = time]]

\* updatePosition(canvasWidth, canvasHeight, consciousness) of node id
updatePosition(ns, id, params, d) ==
    LET n == ns[id]
        moveIntensity == (n.activation - 700) * 20
        vx == DivT((n.vx + MulMilli(MulMilli(d.wx - 500, moveIntensity),
                                    params["adaptation"])) * 9, 10)
        vy == DivT((n.vy + MulMilli(MulMilli(d.wy - 500, moveIntensity),
                                    params["adaptation"])) * 9, 10)
    IN  IF Gt(n.activation, 700)
        THEN [ns EXCEPT ![id] = [n EXCEPT !.vx = vx, !.vy = vy,
                                          !.x = Clamp(30000, canvasWidth - 30000, n.x + vx),
                                          !.y = Clamp(30000, canvasHeight - 30000, n.y + vy)]]
        ELSE ns

\* update(), "Update all nodes": each node in turn reads its targets as
\* the nodes before it left them
RECURSIVE UpdateNodes(_, _, _, _, _, _)
UpdateNodes(ns, ids, k, time, params, d) ==
    IF k > Len(ids) THEN ns
    ELSE UpdateNodes(updatePosition(updateActivation(ns, ids[k], time), ids[k], params, d),
                     ids, k + 1, time, params, d)

\* addConnection(targetId, strength, plasticity) on a node record
addConnection(n, targetId, strength, plasticity) ==
    [n EXCEPT !.connections = [t \in (DOMAIN n.connections) \cup {targetId} |->
                                  IF t = targetId
                                  THEN [strength |-> strength, plasticity |-> plasticity,
                                        age |-> 0, pairs |-> 0]
                                  ELSE n.connections[t]],
              !.socialConnections = @ + 1]

\* removeConnection(targetId) on a node record
removeConnection(n, targetId) ==
    IF targetId \in DOMAIN n.connections
    THEN [n EXCEPT !.connections = [t \in (DOMAIN n.connections) \ {targetId} |-> n.connections[t]],
                   !.socialConnections = @ - 1]
    ELSE n

\* applyHebbianLearning(nodes), the connections targets[k..] of node record n
RECURSIVE HebbianFrom(_, _, _, _, _)
HebbianFrom(ns, n, targets, k, d) ==
    IF k > Len(targets) THEN n
    ELSE LET t == targets[k]
             c == n.connections[t]
             coActivation == Times(n.activation, ns[t].activation)
             strength == IF Gt(coActivation, 700) THEN Min(1000, c.strength + c.plasticity)
                         ELSE IF Lt(coActivation, 200)
                              THEN Max(100, c.strength - DivT(c.plasticity, 2))
                              ELSE c.strength
             events == IF Gt(coActivation, 700) THEN Append(n.learningEvents, "strengthen")
                       ELSE IF Lt(coActivation, 200) THEN Append(n.learningEvents, "weaken")
                       ELSE n.learningEvents
             n1 == [n EXCEPT !.connections[t].strength = strength, !.learningEvents = events]
             n2 == IF strength < 150 /\ d.prune < 10 THEN removeConnection(n1, t) ELSE n1
         IN  HebbianFrom(ns, n2, targets, k + 1, d)

\* applyHebbianLearning(nodes) of node id
applyHebbianLearning(ns, id, d) ==
    LET n == HebbianFrom(ns, ns[id], Resolvable(ns, ns[id]), 1, d)
    IN  [ns EXCEPT ![id] = [n EXCEPT !.learningEvents = IF Len(@) > 20 THEN Tail(@) ELSE @]]

RECURSIVE HebbianAll(_, _, _, _)
HebbianAll(ns, ids, k, d) ==
    IF k > Len(ids) THEN ns ELSE HebbianAll(applyHebbianLearning(ns, ids[k], d), ids, k + 1, d)

\* enhanceLearning() / stabilizeNetwork()
enhanceLearning(ns) ==
    [id \in DOMAIN ns |-> [ns[id] EXCEPT !.plasticity = Min(50, MulMilli(@, 1020))]]

stabilizeNetwork(ns) ==
    [id \in DOMAIN ns |-> [ns[id] EXCEPT !.plasticity = Max(1, MulMilli(@, 980))]]

\* applyLearning(): <<nodes, metrics.learningEvents>>
applyLearning(ns, params, d) ==
    LET ids == Ascending(DOMAIN ns)
        learned == HebbianAll(ns, ids, 1, d)
        events == PlusOver(ids, LAMBDA id : Max(0, Len(learned[id].learningEvents)
                                                   - Len(ns[id].learningEvents)), 1)
        modulated == IF params["adaptation"] > 800 THEN enhanceLearning(learned)
                     ELSE IF params["coherence"] < 300 THEN stabilizeNetwork(learned)
                     ELSE learned
    IN  <<modulated, events>>

\* Array.prototype.sort with a comparator on a numeric key: the ids of
\* `ids` ordered by ascending key, ties in the given order.  When a key is
\* NaN the comparator returns NaN and the resulting order is the engine's:
\* the order is then the given one rotated by the draw `pick`.
RECURSIVE InsertByKey(_, _, _)
InsertByKey(sorted, id, key) ==
    IF sorted = << >> THEN <<id>>
    ELSE IF key[sorted[Len(sorted)]] <= key[id] THEN Append(sorted, id)
    ELSE Append(InsertByKey(SubSeq(sorted, 1, Len(sorted) - 1), id, key), sorted[Len(sorted)])

RECURSIVE SortFrom(_, _, _)
SortFrom(ids, n, key) ==
    IF n = 0 THEN << >> ELSE InsertByKey(SortFrom(ids, n - 1, key), ids[n], key)

SortByKey(ids, key, pick) ==
    IF \E k \in 1..Len(ids) : IsNaN(key[ids[k]])
    THEN [k \in 1..Len(ids) |-> ids[((k - 1 + pick) % Len(ids)) + 1]]
    ELSE SortFrom(ids, Len(ids), key)

\* generateNewConnections(nodes, maxConnections) on node id
generateNewConnections(ns, id, d) ==
    LET n == ns[id]
        others == Ascending({o \in DOMAIN ns : o # id /\ o \notin DOMAIN n.connections})
        score == [o \in DOMAIN ns |->
                     IF IsNaN(ns[o].activation) \/ IsNaN(n.activation) THEN NaN
                     ELSE -(((1000 - Abs(ns[o].activation - n.activation)) * 1000)
                            \div (1000 + ISqrt(Dist2(ns[o], n))))]
        candidates == SortByKey(others, score, d.pick)
        newConnections == Min(Len(candidates), maxConnections - Cardinality(DOMAIN n.connections))
        added == Min(newConnections, d.growCount)
        connect[k \in 0..added] ==
            IF k = 0 THEN n ELSE addConnection(connect[k - 1], candidates[k], d.strength, d.plast)
    IN  IF Cardinality(DOMAIN n.connections) >= maxConnections THEN ns
        ELSE [ns EXCEPT ![id] = connect[added]]

\* growNetwork()
growNetwork(ns, d) ==
    LET open == Ascending({o \in DOMAIN ns : Cardinality(DOMAIN ns[o].connections) < maxConnections})
        growthCandidates == SortByKey(open, [o \in DOMAIN ns |->
                                                IF IsNaN(ns[o].activation) THEN NaN
                                                ELSE -ns[o].activation], d.pick)
    IN  IF Len(growthCandidates) > 0 THEN generateNewConnections(ns, growthCandidates[1], d) ELSE ns

\* pruneNetwork()
pruneNetwork(ns, d) ==
    [id \in DOMAIN ns |->
        LET n == ns[id]
            weakConnections == Ascending({t \in DOMAIN n.connections :
                                   n.connections[t].strength < 200 /\ n.connections[t].age > 100})
        IN  IF Len(weakConnections) > 0 /\ Cardinality(DOMAIN n.connections) > 2
            THEN removeConnection(n, weakConnections[(d.pick % Len(weakConnections)) + 1])
            ELSE n]

\* new NeuralNode(x, y, id)
NeuralNode(id, x, y, activation, rate, phase, plasticity) ==
    [id |-> id, x |-> x, y |-> y, vx |-> 0, vy |-> 0,
     activation |-> activation,
     connections |-> << >>,
     rate |-> rate, phase |-> phase, plasticity |-> plasticity,
     activationHistory |-> << >>, learningEvents |-> << >>, socialConnections |-> 0,
     age |-> 0, lastActivation |-> 0]

\* addNewNode()
addNewNode(ns, d) ==
    LET ids == Ascending(DOMAIN ns)
        newId == ids[Len(ids)] + 1
        newNode == NeuralNode(newId, d.pos.x, d.pos.y, d.gene, 5 + MulMilli(d.gene, 20),
                              MulMilli(d.gene, TwoPiMilli), MulMilli(d.gene, 10))
        distance == [o \in DOMAIN ns |-> Dist2(ns[o], newNode)]
        nearbyNodes == SubSeq(SortFrom(ids, Len(ids), distance), 1, Min(5, Len(ids)))
        connect[k \in 0..Len(nearbyNodes)] ==
            IF k = 0 THEN newNode
            ELSE IF Lt(d.link, ns[nearbyNodes[k]].activation)
                 THEN addConnection(connect[k - 1], nearbyNodes[k], d.strength, d.plast)
                 ELSE connect[k - 1]
    IN  [id \in (DOMAIN ns) \cup {newId} |->
            IF id = newId THEN connect[Len(nearbyNodes)] ELSE ns[id]]

\* replaceOldNode()
replaceOldNode(ns, d) ==
    LET old == Ascending({o \in DOMAIN ns : ns[o].age > 1000 \/ Lt(ns[o].activation, 100)})
        oldNodes == SortByKey(old, [o \in DOMAIN ns |-> ns[o].activation], d.pick)
    IN  IF Len(oldNodes) > 0
        THEN [id \in (DOMAIN ns) \ {oldNodes[1]} |-> removeConnection(ns[id], oldNodes[1])]
        ELSE ns

\* evolveNetwork() adding and removing nodes whatever the size of the network
evolveNetworkUnbounded(ns, params, d) ==
    LET n1 == IF d.grow * 1000 < 5 * params["emergence"] THEN growNetwork(ns, d) ELSE ns
        n2 == IF d.pruneNet < 1 THEN pruneNetwork(n1, d) ELSE n1
        n3 == IF d.addNode * 1000 < params["emergence"] THEN addNewNode(n2, d) ELSE n2
    IN  IF d.replace * 2 < 1 THEN replaceOldNode(n3, d) ELSE n3

\* evolveNetwork()
evolveNetwork(ns, params, d) ==
    LET n1 == IF d.grow * 1000 < 5 * params["emergence"] THEN growNetwork(ns, d) ELSE ns
        n2 == IF d.pruneNet < 1 THEN pruneNetwork(n1, d) ELSE n1
        n3 == IF Cardinality(DOMAIN n2) * 2 < nodeCount * 3 /\ d.addNode * 1000 < params["emergence"]
              THEN addNewNode(n2, d) ELSE n2
    IN  IF Cardinality(DOMAIN n3) * 2 > nodeCount /\ d.replace * 2 < 1
        THEN replaceOldNode(n3, d) ELSE n3

\* identifyClusters(), the walk from one start node: the nodes it visits
\* (the start and every node reached over connections stronger than 0.3
\* through nodes not visited before)
RECURSIVE Walk(_, _, _)
Walk(ns, frontier, seen) ==
    IF frontier = {} THEN seen
    ELSE LET next == {t \in DOMAIN ns : t \notin seen /\ t \notin frontier
                        /\ \E f \in frontier : t \in DOMAIN ns[f].connections
                                               /\ ns[f].connections[t].strength > 300}
         IN  Walk(ns, next, seen \cup frontier)

\* identifyClusters(): the clusters of more than 3 nodes, in the order found
RECURSIVE ClustersFrom(_, _, _, _)
ClustersFrom(ns, ids, k, visited) ==
    IF k > Len(ids) THEN << >>
    ELSE IF ids[k] \in visited THEN ClustersFrom(ns, ids, k + 1, visited)
    ELSE LET cluster == Walk(ns, {ids[k]}, visited) \ visited
         IN  (IF Cardinality(cluster) > 3 THEN <<cluster>> ELSE << >>)
             \o ClustersFrom(ns, ids, k + 1, visited \cup cluster)

identifyClusters(ns) == ClustersFrom(ns, Ascending(DOMAIN ns), 1, {})

\* reorganizeNetwork(): the bridge for the ordered pair (i, j) of clusters
\* and the pairs after it
RECURSIVE BridgeFrom(_, _, _, _, _)
BridgeFrom(ns, clusters, i, j, d) ==
    IF i > Len(clusters) THEN ns
    ELSE IF j > Len(clusters) THEN BridgeFrom(ns, clusters, i + 1, 1, d)
    ELSE IF i # j /\ d.bridge < 100
         THEN LET c1 == Ascending(clusters[i])
                  c2 == Ascending(clusters[j])
                  node1 == c1[(d.pick % Len(c1)) + 1]
                  node2 == c2[(d.pick % Len(c2)) + 1]
              IN  BridgeFrom(IF Cardinality(DOMAIN ns[node1].connections) < maxConnections
                             THEN [ns EXCEPT ![node1] = addConnection(@, node2, 500, 20)]
                             ELSE ns,
                             clusters, i, j + 1, d)
         ELSE BridgeFrom(ns, clusters, i, j + 1, d)

reorganizeNetwork(ns, d) == BridgeFrom(ns, identifyClusters(ns), 1, 1, d)

\* injectNovelConnections(): the pair (i, j) of the highly active nodes and
\* the pairs after it
RECURSIVE InjectFrom(_, _, _, _)
InjectFrom(ns, high, i, j) ==
    IF i > Len(high) THEN ns
    ELSE IF j > Len(high) THEN InjectFrom(ns, high, i + 1, i + 3)
    ELSE InjectFrom(IF /\ high[j] \notin DOMAIN ns[high[i]].connections
                       /\ Cardinality(DOMAIN ns[high[i]].connections) < maxConnections
                    THEN [ns EXCEPT ![high[i]] = addConnection(@, high[j], 600, 15)]
                    ELSE ns,
                    high, i, j + 2)

injectNovelConnections(ns) ==
    LET active == Ascending({o \in DOMAIN ns : Gt(ns[o].activation, 700)})
        sorted == SortFrom(active, Len(active), [o \in DOMAIN ns |-> -ns[o].activation])
    IN  InjectFrom(ns, SubSeq(sorted, 1, Min(10, Len(sorted))), 1, 3)

\* handlePhaseTransitions()
handlePhaseTransitions(ns, time, d) ==
    IF time % 1500 = 0
    THEN LET n1 == IF d.reorg < 300 THEN reorganizeNetwork(ns, d) ELSE ns
         IN  IF d.inject < 200 THEN injectNovelConnections(n1) ELSE n1
    ELSE ns

\* updateMetrics(), given the learning events counted by applyLearning()
updateMetrics(ns, learningEvents) ==
    LET ids == Ascending(DOMAIN ns)
        totalActivation == PlusOver(ids, LAMBDA id : ns[id].activation, 1)
    IN  [totalConnections |-> PlusOver(ids, LAMBDA id : Cardinality(DOMAIN ns[id].connections), 1),
         averageActivation |-> IF IsNaN(totalActivation) \/ Len(ids) = 0 THEN NaN
                               ELSE totalActivation \div Len(ids),
         networkClusters |-> Len(identifyClusters(ns)),
         learningEvents |-> learningEvents]

(***************************************************************************)
(* Bounds of the neural network runs.                                      *)
(***************************************************************************)
MaxNeuralTicks == 3      \* update() calls per run

\* the Math.random() outcomes of one update(); every draw of one kind
\* within an update takes the same value
NeuralBaseDraws ==
    [wx |-> 500, wy |-> 500, prune |-> 999, grow |-> 999, growCount |-> 0, pruneNet |-> 999,
     addNode |-> 999, replace |-> 999, reorg |-> 999, inject |-> 999, bridge |-> 999,
     pick |-> 0, pos |-> [x |-> 400000, y |-> 300000], gene |-> 800, link |-> 0,
     strength |-> 500, plast |-> 5]

NeuralDrawProfiles ==
    { NeuralBaseDraws,
      [NeuralBaseDraws EXCEPT !.wx = 0, !.wy = 999],
      [NeuralBaseDraws EXCEPT !.prune = 0],
      [NeuralBaseDraws EXCEPT !.grow = 0, !.growCount = 1, !.pick = 1],
      [NeuralBaseDraws EXCEPT !.pruneNet = 0],
      [NeuralBaseDraws EXCEPT !.addNode = 0],
      [NeuralBaseDraws EXCEPT !.replace = 0],
      [NeuralBaseDraws EXCEPT !.addNode = 0, !.replace = 0],
      [NeuralBaseDraws EXCEPT !.reorg = 0, !.bridge = 0],
      [NeuralBaseDraws EXCEPT !.inject = 0] }

SeedActivations == {100, 900}

\* the network initialize() builds, with three nodes: node 0 connected to
\* both others, node 1 to node 0, node 2 to none (its draws all hit itself)
SeedNodes(a0, a1) ==
    [id \in 0..2 |->
        CASE id = 0 -> addConnection(addConnection(
                           NeuralNode(0, 100000, 100000, a0, 15, 0, 5), 1, 800, 5), 2, 120, 8)
          [] id = 1 -> addConnection(NeuralNode(1, 140000, 100000, a1, 25, 3142, 10), 0, 900, 10)
          [] id = 2 -> NeuralNode(2, 500000, 400000, 900, 5, 1571, 0)]

InitialNeuralMetrics ==
    [totalConnections |-> 0, averageActivation |-> 0, networkClusters |-> 0, learningEvents |-> 0]

InitNeural ==
    /\ \E a0 \in SeedActivations, a1 \in SeedActivations :
          /\ nodes = SeedNodes(a0, a1)
          /\ neuralMetrics = updateMetrics(SeedNodes(a0, a1), 0)
    /\ neuralTick = 0

\* no neural network simulation is running
IdleNeural ==
    /\ nodes = << >>
    /\ neuralMetrics = InitialNeuralMetrics
    /\ neuralTick = 0

\* NeuralNetworkSimulation.update() with the draws d, the core's time and
\* parameters being time and params: the steps in the order of the source.
\* The metrics are taken before handlePhaseTransitions.
NeuralUpdate(time, params, d) ==
    \E updated \in {UpdateNodes(nodes, Ascending(DOMAIN nodes), 1, time, params, d)} :
    \E learned \in {applyLearning(updated, params, d)} :
    \E evolved \in {evolveNetwork(learned[1], params, d)} :
        /\ nodes' = handlePhaseTransitions(evolved, time, d)
        /\ neuralMetrics' = updateMetrics(evolved, learned[2])
        /\ neuralTick' = neuralTick + 1

(***************************************************************************)
(* CellularCell (src/unnamed/part_003) and CellularAutomataSimulation      *)
(* (src/fractals/simulations/cellular-automata.js)                         *)
(*                                                                         *)
(* this.grid is a function from <<x, y>> to cell record; this.updateGrid   *)
(* (a Map walked in insertion order) is the sequence of its keys.          *)
(***************************************************************************)
VARIABLES
    grid,           \* this.grid
    updateGrid,     \* this.updateGrid: the marked positions, in insertion order
    reproductionQueue,  \* this.reproductionQueue: positions queued by the last update()
    cellEvolution,  \* this.evolution: generation, totalBirths, totalDeaths, averageEnergy,
                    \* populationHistory
    cellTick,       \* number of update() calls made (bounds the run)
    cellTrace,      \* what the last update() did: the positions updateCell ran on,
                    \* for every entry of the reproduction queue the parent, what it
                    \* paid and the births it led to, the positions the update
                    \* added to updateGrid, whether it took the updateAllCells() fallback,
                    \* and the positions where a cell died or was born
    cellSnapshot    \* the object the last getState() call returned, as its caller
                    \* holds it

cellVars == <<grid, updateGrid, reproductionQueue, cellEvolution, cellTick, cellTrace,
              cellSnapshot>>

(***************************************************************************)
(* Bounds: the grid of the model (config.gridWidth x config.gridHeight is  *)
(* 80 x 60 in the program).                                                *)
(***************************************************************************)
gridWidth == 3

gridHeight == 3

Positions == (0..(gridWidth - 1)) \X (0..(gridHeight - 1))

\* new CellularCell(x, y)
CellularCell ==
    [alive |-> FALSE, energy |-> 0, age |-> 0, type |-> 0,
     evolution |-> [mutationRate |-> 10, energyDecay |-> 20,
                    reproductionThreshold |-> 800, survivalThreshold |-> 100],
     environment |-> [localDensity |-> 0, energyGradient |-> 0,
                      typeDistribution |-> <<0, 0, 0, 0>>],
     memory |-> [maxEnergy |-> 0, generations |-> 0, typeChanges |-> 0],
     lastUpdate |-> 0]

\* the offsets (dx, dy) of a square of the given radius, dx outer, dy inner
Offsets(radius) ==
    [k \in 1..((2 * radius + 1) * (2 * radius + 1)) |->
        <<((k - 1) \div (2 * radius + 1)) - radius, ((k - 1) % (2 * radius + 1)) - radius>>]

\* getNeighborPositions(x, y): the eight positions around, wrapping
getNeighborPositions(pos) ==
    LET around == SelectSeq(Offsets(1), LAMBDA o : o # <<0, 0>>)
    IN  [k \in 1..Len(around) |->
            <<(pos[1] + around[k][1] + gridWidth) % gridWidth,
              (pos[2] + around[k][2] + gridHeight) % gridHeight>>]

\* getNeighbors(x, y): the cells at those positions
getNeighbors(g, pos) == [k \in 1..8 |-> g[getNeighborPositions(pos)[k]]]

\* markForUpdate(x, y, radius): the marks after it; the positions of the
\* square that lie on the grid and are not yet marked are appended in the
\* order of the loops
markForUpdate(marks, pos, radius) ==
    LET square == [k \in 1..Len(Offsets(radius)) |->
                      <<pos[1] + Offsets(radius)[k][1], pos[2] + Offsets(radius)[k][2]>>]
    IN  marks \o SelectSeq(square, LAMBDA n : /\ n \in Positions
                                              /\ ~\E i \in 1..Len(marks) : marks[i] = n)

\* inheritType(parentType) and birth(parentEnergy, parentType)
birth(cell, parentEnergy, parentType, d) ==
    LET mutated == d.mutate < cell.evolution.mutationRate
        type == IF mutated THEN d.newType ELSE parentType
        energy == Min(1000, 300 + MulMilli(d.gene, 400) + MulMilli(parentEnergy, 200))
    IN  [cell EXCEPT !.alive = TRUE, !.energy = energy, !.age = 0, !.type = type,
                     !.memory.generations = @ + 1,
                     !.memory.typeChanges = IF mutated /\ d.newType # parentType THEN @ + 1 ELSE @,
                     !.memory.maxEnergy = energy]

\* death()
death(cell) == [cell EXCEPT !.alive = FALSE, !.energy = MulMilli(@, 300), !.age = 0]

\* number of the neighbours satisfying P / sum of F over them
Count(neighbors, P(_)) == Cardinality({k \in 1..Len(neighbors) : P(neighbors[k])})

\* updateEnvironment(neighbors)
CellUpdateEnvironment(cell, neighbors) ==
    LET aliveCount == Count(neighbors, LAMBDA n : n.alive)
        totalEnergy == SumOver(neighbors, LAMBDA n : IF n.alive THEN n.energy ELSE 0, 1)
    IN  [cell EXCEPT !.environment =
            [localDensity |-> (aliveCount * 1000) \div Len(neighbors),
             energyGradient |-> totalEnergy \div Max(1, aliveCount),
             typeDistribution |-> [t \in 1..4 |->
                 (Count(neighbors, LAMBDA n : n.alive /\ n.type = t - 1) * 1000)
                 \div Max(1, aliveCount)]]]

\* getTypeEnergyBehavior(neighbors, consciousness)
getTypeEnergyBehavior(cell, neighbors, params, d) ==
    CASE cell.type = 0 -> MulMilli(d.gene - 500, 100)
      [] cell.type = 1 -> 50 + MulMilli(params["complexity"], 80)
      [] cell.type = 2 -> Min(80, MulMilli(SumOver(neighbors,
                                LAMBDA n : IF n.alive THEN n.energy ELSE 0, 1), 20))
      [] cell.type = 3 -> IF cell.environment.localDensity > 600 THEN 30
                          ELSE MulMilli(d.gene - 300, 120)

\* getDensityModifier()
getDensityModifier(cell) == Max(500, 1000 - Abs(cell.environment.localDensity - 400) * 2)

\* processEnergy(neighbors, consciousness)
processEnergy(cell, neighbors, params, d) ==
    LET totalEnergyChange == MulMilli(getTypeEnergyBehavior(cell, neighbors, params, d),
                                      getDensityModifier(cell))
                             + MulMilli(params["coherence"], 100)
                             + MulMilli(params["emergence"], 50)
        energy == Clamp(0, 1000, cell.energy + totalEnergyChange)
    IN  [cell EXCEPT !.memory.maxEnergy = Max(@, energy),
                     !.energy = MulMilli(energy, 1000 - cell.evolution.energyDecay)]

\* checkSurvival()
checkSurvival(cell, d) ==
    IF cell.energy < cell.evolution.survivalThreshold THEN death(cell)
    ELSE IF cell.age * 1000 > 100000 + cell.memory.maxEnergy * 50 /\ d.oldAge < 100 THEN death(cell)
    ELSE IF cell.environment.localDensity > 800 /\ d.crowd < 50 THEN death(cell)
    ELSE cell

\* a CellularCell.update that forgets to age the living cell
CellUpdateWithoutAging(cell, neighbors, params, time, d) ==
    IF cell.alive
    THEN checkSurvival(processEnergy(CellUpdateEnvironment([cell EXCEPT !.lastUpdate = time],
                                                           neighbors),
                                     neighbors, params, d), d)
    ELSE [cell EXCEPT !.lastUpdate = time,
                      !.energy = MulMilli(@, 1000 - cell.evolution.energyDecay \div 2)]

\* CellularCell.update(neighbors, consciousness, time)
CellUpdate(cell, neighbors, params, time, d) ==
    IF cell.alive
    THEN checkSurvival(processEnergy(CellUpdateEnvironment([cell EXCEPT !.lastUpdate = time,
                                                                       !.age = @ + 1],
                                                           neighbors),
                                     neighbors, params, d), d)
    ELSE [cell EXCEPT !.lastUpdate = time,
                      !.energy = MulMilli(@, 1000 - cell.evolution.energyDecay \div 2)]

\* canReproduce()
canReproduce(cell) ==
    /\ cell.alive
    /\ cell.energy > cell.evolution.reproductionThreshold
    /\ cell.age > 10
    /\ cell.environment.localDensity < 700

\* CellularCell.evolve()
CellEvolve(cell) ==
    LET successMetric == (cell.memory.maxEnergy + cell.age * 10) \div 2
    IN  IF successMetric > 700
        THEN [cell EXCEPT !.evolution.mutationRate = MulMilli(@, 950),
                          !.evolution.energyDecay = MulMilli(@, 980)]
        ELSE IF successMetric < 300
        THEN [cell EXCEPT !.evolution.mutationRate = Min(100, MulMilli(@, 1050))]
        ELSE cell

\* updateCell(x, y, time) on the simulation record cs
updateCell(cs, pos, params, time, d) ==
    LET cell == cs.grid[pos]
        wasAlive == cell.alive
        c1 == CellUpdate(cell, getNeighbors(cs.grid, pos), params, time, d)
        died == wasAlive /\ ~c1.alive
        c2 == IF c1.alive /\ c1.age % 50 = 0 THEN CellEvolve(c1) ELSE c1
    IN  [cs EXCEPT !.grid[pos] = c2,
                   !.deaths = IF died THEN @ + 1 ELSE @,
                   !.marks = IF died THEN markForUpdate(@, pos, 1) ELSE @,
                   !.queue = IF canReproduce(c1) /\ d.repro < 20 THEN Append(@, pos) ELSE @,
                   !.updated = Append(@, pos),
                   !.died = IF died THEN @ \cup {pos} ELSE @]

\* updateActiveCells(time): the marks from the k-th on, those added on the way included
RECURSIVE updateActiveCells(_, _, _, _, _)
updateActiveCells(cs, k, params, time, d) ==
    IF k > Len(cs.marks) THEN cs
    ELSE updateActiveCells(updateCell(cs, cs.marks[k], params, time, d), k + 1, params, time, d)

\* the grid positions in the order of the loops "for x ... for y ..."
ScanOrder == [k \in 1..(gridWidth * gridHeight) |-> <<(k - 1) \div gridHeight, (k - 1) % gridHeight>>]

\* updateAllCells(time), "Math.random() < 0.3" per cell: d.sample names the
\* cells whose draw succeeds
Sampled(pos, d) ==
    \/ d.sample = "all"
    \/ d.sample = "checker" /\ (pos[1] + pos[2]) % 2 = 0

RECURSIVE updateAllCells(_, _, _, _, _)
updateAllCells(cs, k, params, time, d) ==
    IF k > Len(ScanOrder) THEN cs
    ELSE updateAllCells(IF Sampled(ScanOrder[k], d)
                        THEN updateCell(cs, ScanOrder[k], params, time, d) ELSE cs,
                        k + 1, params, time, d)

\* mutateCellType(cell)
mutateCellType(cell, d) ==
    [cell EXCEPT !.type = d.newType,
                 !.memory.typeChanges = IF d.newType # cell.type THEN @ + 1 ELSE @]

\* chooseBestReproductionSite(emptySpaces, parentCell)
chooseBestReproductionSite(g, emptySpaces) ==
    LET score(pos) ==
            SumOver(getNeighbors(g, pos), LAMBDA n : n.energy, 1) \div 8
            + Cardinality({getNeighbors(g, pos)[k].type : k \in 1..8}) * 100
        best == CHOOSE k \in 1..Len(emptySpaces) :
                    /\ \A j \in 1..Len(emptySpaces) : score(emptySpaces[j]) <= score(emptySpaces[k])
                    /\ \A j \in 1..(k - 1) : score(emptySpaces[j]) < score(emptySpaces[k])
    IN  IF Len(emptySpaces) = 1 THEN emptySpaces[1] ELSE emptySpaces[best]

\* reproduceCell() that leaves the birth out of totalBirths
reproduceCellUncounted(cs, pos, parentEnergy, d) ==
    LET emptySpaces == SelectSeq(getNeighborPositions(pos), LAMBDA q : ~cs.grid[q].alive)
        site == chooseBestReproductionSite(cs.grid, emptySpaces)
        newCell == birth(cs.grid[site], parentEnergy, cs.grid[pos].type, d)
    IN  IF Len(emptySpaces) = 0 THEN cs
        ELSE [cs EXCEPT !.grid[site] = IF d.mutation < 50 THEN mutateCellType(newCell, d) ELSE newCell,
                        !.marks = markForUpdate(@, site, 2),
                        !.born = @ \cup {site}]

\* reproduceCell(parentX, parentY, parentCell, parentEnergy)
reproduceCell(cs, pos, parentEnergy, d) ==
    LET emptySpaces == SelectSeq(getNeighborPositions(pos), LAMBDA q : ~cs.grid[q].alive)
        site == chooseBestReproductionSite(cs.grid, emptySpaces)
        newCell == birth(cs.grid[site], parentEnergy, cs.grid[pos].type, d)
    IN  IF Len(emptySpaces) = 0 THEN cs
        ELSE [cs EXCEPT !.grid[site] = IF d.mutation < 50 THEN mutateCellType(newCell, d) ELSE newCell,
                        !.births = @ + 1,
                        !.marks = markForUpdate(@, site, 2),
                        !.born = @ \cup {site}]

\* getReproductionEnergy(): the energy the parent contributes (0 when it
\* cannot reproduce)
getReproductionEnergy(cell) ==
    IF canReproduce(cell) THEN MulMilli(cell.energy - cell.evolution.reproductionThreshold, 800)
    ELSE 0

\* what processReproduction() did for the queue entry of the parent at pos:
\* the parent's energy before and after, and the births counted for it
Reproduced(pos, before, after) ==
    [parent |-> pos, energyBefore |-> before.grid[pos].energy,
     energyAfter |-> after.grid[pos].energy, births |-> after.births - before.births]

\* processReproduction(), from the k-th queued parent on
RECURSIVE processReproduction(_, _, _)
processReproduction(cs, k, d) ==
    IF k > Len(cs.queue) THEN cs
    ELSE LET pos == cs.queue[k]
             parentEnergy == getReproductionEnergy(cs.grid[pos])
             paid == [cs EXCEPT !.grid[pos].energy = @ - parentEnergy]
             done == IF parentEnergy > 0 THEN reproduceCell(paid, pos, parentEnergy, d)
                     ELSE paid
         IN  processReproduction(
                 [done EXCEPT !.reproduced = Append(@, Reproduced(pos, cs, done))], k + 1, d)

\* handleSpontaneousGeneration()
handleSpontaneousGeneration(cs, params, d) ==
    IF d.spont * 1250 < params["emergence"] /\ ~cs.grid[d.cell].alive
    THEN [cs EXCEPT !.grid[d.cell] = birth(@, 200 + MulMilli(d.gene, 800), d.newType, d),
                    !.births = @ + 1,
                    !.marks = markForUpdate(@, d.cell, 2),
                    !.born = @ \cup {d.cell}]
    ELSE cs

\* the four evolution events on one cell, and whether the event touches it
EventTouches(cell, d) ==
    CASE d.event = 0 -> cell.alive /\ d.mass < 100
      [] d.event = 1 -> cell.alive
      [] d.event = 2 -> cell.alive /\ cell.energy < 500
      [] d.event = 3 -> cell.alive

EventOn(cell, d) ==
    CASE d.event = 0 -> mutateCellType(cell, d)
      [] d.event = 1 -> [cell EXCEPT !.energy = Min(1000, @ + 300)]
      [] d.event = 2 -> [cell EXCEPT !.energy = MulMilli(@, 700)]
      [] d.event = 3 -> IF cell.type = d.newType THEN [cell EXCEPT !.energy = Min(1000, @ + 200)]
                        ELSE [cell EXCEPT !.energy = MulMilli(@, 900)]

\* triggerEvolutionEvent(): massMutation / energySurge / environmentalPressure /
\* geneticDrift over the grid in scan order, from position k on
RECURSIVE EventFrom(_, _, _)
EventFrom(cs, k, d) ==
    IF k > Len(ScanOrder) THEN cs
    ELSE EventFrom(IF EventTouches(cs.grid[ScanOrder[k]], d)
                   THEN [cs EXCEPT !.grid[ScanOrder[k]] = EventOn(@, d),
                                   !.marks = markForUpdate(@, ScanOrder[k], 1)]
                   ELSE cs,
                   k + 1, d)

\* handleEvolutionEvents()
handleEvolutionEvents(cs, time, d) ==
    IF time % 1500 = 0 THEN [EventFrom(cs, 1, d) EXCEPT !.generation = @ + 1] ELSE cs

\* updateEvolutionMetrics(): <<averageEnergy, typeDistribution, living cells>>
CellMetrics(g) ==
    LET cells == [k \in 1..Len(ScanOrder) |-> g[ScanOrder[k]]]
        livingCells == Count(cells, LAMBDA c : c.alive)
        totalEnergy == SumOver(cells, LAMBDA c : IF c.alive THEN c.energy ELSE 0, 1)
    IN  [averageEnergy |-> IF livingCells > 0 THEN totalEnergy \div livingCells ELSE 0,
         typeDistribution |-> [t \in 1..4 |->
             (Count(cells, LAMBDA c : c.alive /\ c.type = t - 1) * 1000) \div Max(1, livingCells)],
         livingCells |-> livingCells]

(***************************************************************************)
(* Bounds of the cellular automata runs.                                   *)
(***************************************************************************)
MaxCellTicks == 2        \* update() calls per run

\* the Math.random() outcomes of one update(); every draw of one kind
\* within an update takes the same value
CellBaseDraws ==
    [sample |-> "all", gene |-> 500, mutate |-> 999, newType |-> 1, oldAge |-> 999,
     crowd |-> 999, repro |-> 999, mutation |-> 999, spont |-> 999, cell |-> <<0, 0>>,
     event |-> 1, mass |-> 0]

CellDrawProfiles ==
    { CellBaseDraws,
      [CellBaseDraws EXCEPT !.sample = "none"],
      [CellBaseDraws EXCEPT !.sample = "checker", !.gene = 0],
      [CellBaseDraws EXCEPT !.crowd = 0, !.oldAge = 0],
      [CellBaseDraws EXCEPT !.repro = 0, !.mutation = 0, !.newType = 3],
      [CellBaseDraws EXCEPT !.spont = 0, !.gene = 999],
      [CellBaseDraws EXCEPT !.sample = "none", !.event = 0],
      [CellBaseDraws EXCEPT !.sample = "checker", !.event = 2] }

\* initialize(): the grid with the cells at `living` born (type t, trait
\* draw g) and marked for update, the others as constructed
RECURSIVE InitialMarks(_, _)
InitialMarks(living, k) ==
    IF k = 0 THEN << >>
    ELSE IF ScanOrder[k] \in living THEN markForUpdate(InitialMarks(living, k - 1), ScanOrder[k], 1)
    ELSE InitialMarks(living, k - 1)

InitialGrid(living, t, g) ==
    [pos \in Positions |->
        IF pos \in living
        THEN birth(CellularCell, 400 + MulMilli(g, 600), t, [CellBaseDraws EXCEPT !.gene = g])
        ELSE CellularCell]

SeedColonies == { {<<1, 1>>}, {<<0, 0>>, <<0, 1>>, <<1, 0>>, <<1, 1>>, <<2, 2>>} }

SeedCellTypes == {0, 2}

InitialCellEvolution(g) ==
    [generation |-> 0, totalBirths |-> 0, totalDeaths |-> 0,
     averageEnergy |-> CellMetrics(g).averageEnergy,
     typeDistribution |-> CellMetrics(g).typeDistribution,
     populationHistory |-> <<CellMetrics(g).livingCells>>]

EmptyCellTrace ==
    [updated |-> << >>, died |-> {}, born |-> {}, reproduced |-> << >>, marked |-> {},
     fallback |-> FALSE]

\* { ...this.evolution }: a new object with the values of the fields.  The
\* value of populationHistory is the array itself, not its content: the
\* copy refers to the array of the simulation
Spread(ev) == [ev EXCEPT !.populationHistory = [shared |-> TRUE, items |-> << >>]]

\* what a reader of the copy finds in its populationHistory
HistoryOf(ev) ==
    IF ev.populationHistory.shared THEN cellEvolution.populationHistory
    ELSE ev.populationHistory.items

\* getState(): the evolution record and the population size (config and
\* diversityIndex, a copy of numbers and a number, are left out);
\* historyAtCall is the content of populationHistory when the call returned
getState ==
    [taken |-> TRUE,
     evolution |-> Spread(cellEvolution),
     populationSize |-> IF cellEvolution.populationHistory = << >> THEN 0
                        ELSE cellEvolution.populationHistory[Len(cellEvolution.populationHistory)],
     historyAtCall |-> cellEvolution.populationHistory]

\* no getState() call was made
NoSnapshot(g) ==
    [taken |-> FALSE, evolution |-> Spread(InitialCellEvolution(g)), populationSize |-> 0,
     historyAtCall |-> << >>]

InitCellsWith(living, t, g) ==
    /\ grid = InitialGrid(living, t, g)
    /\ updateGrid = InitialMarks(living, Len(ScanOrder))
    /\ reproductionQueue = << >>
    /\ cellEvolution = InitialCellEvolution(InitialGrid(living, t, g))
    /\ cellTick = 0
    /\ cellTrace = EmptyCellTrace
    /\ cellSnapshot = NoSnapshot(InitialGrid(living, t, g))

InitCells == \E living \in SeedColonies, t \in SeedCellTypes, g \in GeneDraws : InitCellsWith(living, t, g)

\* no cellular automata simulation is running
IdleCells ==
    /\ grid = [pos \in Positions |-> CellularCell]
    /\ updateGrid = << >>
    /\ reproductionQueue = << >>
    /\ cellEvolution = InitialCellEvolution([pos \in Positions |-> CellularCell])
    /\ cellTick = 0
    /\ cellTrace = EmptyCellTrace
    /\ cellSnapshot = NoSnapshot([pos \in Positions |-> CellularCell])

\* the simulation as one record at the start of update(); updated, died,
\* born and reproduced collect what the update does
CellObject ==
    [grid |-> grid, marks |-> updateGrid, queue |-> << >>,
     births |-> cellEvolution.totalBirths, deaths |-> cellEvolution.totalDeaths,
     generation |-> cellEvolution.generation,
     updated |-> << >>, died |-> {}, born |-> {}, reproduced |-> << >>]

\* CellularAutomataSimulation.update() with the draws d, the core's time
\* and parameters being time and params: the steps in the order of the
\* source, each on the record the step before left
CellsUpdate(time, params, d) ==
    \E s1 \in {IF Len(updateGrid) > 0 THEN updateActiveCells(CellObject, 1, params, time, d)
                ELSE updateAllCells(CellObject, 1, params, time, d)} :
    \E s2 \in {processReproduction(s1, 1, d)} :
    \E s3 \in {handleSpontaneousGeneration(s2, params, d)} :
    \E cs \in {handleEvolutionEvents(s3, time, d)} :
    \E m \in {CellMetrics(cs.grid)} :
        /\ grid' = cs.grid
        /\ updateGrid' = << >>
        /\ reproductionQueue' = cs.queue
        /\ cellEvolution' =
              [generation |-> cs.generation, totalBirths |-> cs.births, totalDeaths |-> cs.deaths,
               averageEnergy |-> m.averageEnergy,
               typeDistribution |-> m.typeDistribution,
               populationHistory |->
                   IF Len(cellEvolution.populationHistory) >= 100
                   THEN Append(Tail(cellEvolution.populationHistory), m.livingCells)
                   ELSE Append(cellEvolution.populationHistory, m.livingCells)]
        /\ cellTick' = cellTick + 1
        /\ cellTrace' = [updated |-> cs.updated, died |-> cs.died, born |-> cs.born,
                         reproduced |-> cs.reproduced,
                         marked |-> {cs.marks[k] : k \in (Len(updateGrid) + 1)..Len(cs.marks)},
                         fallback |-> Len(updateGrid) = 0]
        /\ UNCHANGED cellSnapshot

(***************************************************************************)
(* AIExperienceSimulation (src/fractals/simulations/ai-experience.js)      *)
(*                                                                         *)
(* Confidences, uncertainties, strengths and intensities are milli;        *)
(* positions and radii are milli-pixels; Date.now() is aiClock, in ms.     *)
(* metaCognition is << >> when the field is null and <<record>> otherwise. *)
(***************************************************************************)
VARIABLES
    processingThreads,  \* this.processingThreads, in array order
    attentionNodes,     \* this.attentionNodes, in array order
    uncertaintyField,   \* this.uncertaintyField: [<<x, y>> -> cell]
    contextStack,       \* this.contextStack
    patternCascades,    \* this.patternCascades
    emergentInsights,   \* this.emergentInsights
    sharedContextWindow,    \* this.sharedContextWindow
    aiGlobal,           \* globalUncertainty, processingLoad, averageConfidence,
                        \* contextStackDepth
    metaCognition,      \* this.metaCognition
    uncertaintyWaves,   \* this.consciousnessUncertaintyWaves
    aiClock,            \* Date.now()
    aiTick,             \* number of update() calls made (bounds the run)
    aiTrace,            \* what the last update() did: the steps it completed and the
                        \* message of the error its try block caught ("" when none)
    metaObject,         \* which object this.metaCognition is: initializeMetaCognition()
                        \* makes a new one each time (0 before the first)
    reflectionTimers    \* the pending setTimeout callbacks of triggerSelfReflection(),
                        \* oldest first: each holds the object it captured as meta

aiVars == <<processingThreads, attentionNodes, uncertaintyField, contextStack,
            patternCascades, emergentInsights, sharedContextWindow, aiGlobal,
            metaCognition, uncertaintyWaves, aiClock, aiTick, aiTrace, metaObject,
            reflectionTimers>>

(***************************************************************************)
(* Bounds: the sizes of the model (config.maxProcessingThreads is 25,      *)
(* config.maxAttentionNodes 8 and the uncertainty grid 20 x 20 in the      *)
(* program).                                                               *)
(***************************************************************************)
maxProcessingThreads == 4

maxAttentionNodes == 3

gridSize == 3

FieldPositions == (0..(gridSize - 1)) \X (0..(gridSize - 1))

\* selectProcessingType(): the types, in the order of the array
ProcessingTypes ==
    <<"prompt_interpretation", "knowledge_retrieval", "token_prediction", "semantic_encoding",
      "context_aggregation", "response_generation", "uncertainty_estimation",
      "hallucination_check", "ethical_alignment", "tool_use_decision",
      "multi_modal_integration", "self_correction", "pattern_recognition",
      "logical_reasoning", "error_detection">>

\* generateTask(): d.taskType is the type drawn, d.complexity, d.required and
\* d.duration the Math.random() draws of complexity, requiredConfidence and
\* timeRemaining
generateTask(d) ==
    LET type == d.taskType
        drawn == 600 + MulMilli(d.required, 300)
        shape ==
            CASE type = "prompt_interpretation" ->
                     [complexity |-> 400 + MulMilli(d.complexity, 300), timeFactor |-> 500,
                      requiredConfidence |-> 800]
              [] type = "knowledge_retrieval" ->
                     [complexity |-> 600 + MulMilli(d.complexity, 300), timeFactor |-> 1500,
                      requiredConfidence |-> drawn]
              [] type = "token_prediction" ->
                     [complexity |-> 200 + MulMilli(d.complexity, 200), timeFactor |-> 200,
                      requiredConfidence |-> 500]
              [] type = "semantic_encoding" ->
                     [complexity |-> 500 + MulMilli(d.complexity, 400), timeFactor |-> 1000,
                      requiredConfidence |-> drawn]
              [] type = "context_aggregation" ->
                     [complexity |-> 700 + MulMilli(d.complexity, 300), timeFactor |-> 2000,
                      requiredConfidence |-> 750]
              [] type = "response_generation" ->
                     [complexity |-> 600 + MulMilli(d.complexity, 400), timeFactor |-> 1800,
                      requiredConfidence |-> 700]
              [] type \in {"uncertainty_estimation", "hallucination_check", "ethical_alignment"} ->
                     [complexity |-> 500 + MulMilli(d.complexity, 300), timeFactor |-> 800,
                      requiredConfidence |-> 850]
              [] type = "tool_use_decision" ->
                     [complexity |-> 700 + MulMilli(d.complexity, 200), timeFactor |-> 1000,
                      requiredConfidence |-> 900]
              [] type = "self_correction" ->
                     [complexity |-> 600 + MulMilli(d.complexity, 300), timeFactor |-> 1200,
                      requiredConfidence |-> drawn]
              [] OTHER ->
                     [complexity |-> d.complexity, timeFactor |-> 1000,
                      requiredConfidence |-> drawn]
    IN  [type |-> type,
         complexity |-> shape.complexity,
         timeRemaining |-> MulMilli(50000 + d.duration * 100, shape.timeFactor),
         requiredConfidence |-> shape.requiredConfidence]

\* createProcessingThread(): the thread object, with the draws d
createProcessingThread(id, d) ==
    [id |-> id, x |-> d.pos.x, y |-> d.pos.y,
     processingSpeed |-> 500 + MulMilli(d.gene, 500), efficiency |-> d.gene,
     confidence |-> 500, uncertainty |-> 500,
     currentTask |-> generateTask(d), taskProgress |-> 0, taskComplexity |-> d.gene,
     activity |-> 0, pulsation |-> MulMilli(d.gene, TwoPiMilli),
     experienceBuffer |-> << >>,
     contextAffinity |-> d.gene,
     cognitiveMode |-> IF d.mode < 600 THEN "pattern_matching" ELSE "semantic_reasoning"]

\* createAttentionNode()
createAttentionNode(d) ==
    [x |-> d.pos.x, y |-> d.pos.y, strength |-> 500, target |-> 0,
     priority |-> d.priority, decay |-> 980 + MulMilli(d.nodeDecay, 19), oscillation |-> 0]

\* createInsight(thread)
createInsight(thread) ==
    [type |-> "thread_insight", source |-> thread.id, confidence |-> thread.confidence,
     x |-> thread.x, y |-> thread.y, intensity |-> 800, decay |-> 980]

\* Array.prototype.sort((a, b) => b.timestamp - a.timestamp): stable, newest first
RECURSIVE InsertByTimestamp(_, _)
InsertByTimestamp(sorted, item) ==
    IF sorted = << >> THEN <<item>>
    ELSE IF sorted[Len(sorted)].timestamp >= item.timestamp THEN Append(sorted, item)
    ELSE Append(InsertByTimestamp(SubSeq(sorted, 1, Len(sorted) - 1), item), sorted[Len(sorted)])

RECURSIVE SortByTimestamp(_, _)
SortByTimestamp(items, n) ==
    IF n = 0 THEN << >> ELSE InsertByTimestamp(SortByTimestamp(items, n - 1), items[n])

\* the task types whose result completeTask shares in the context window
SharedTaskTypes ==
    {"prompt_interpretation", "semantic_encoding", "knowledge_retrieval", "context_aggregation"}

\* completeTask(thread) for thread i of the simulation record s.  The third
\* block of the source needs this.activePrompt, which is never set.
completeTask(s, i, d) ==
    LET thread == s.threads[i]
        task == thread.currentTask
        success == thread.confidence > task.requiredConfidence
        pushed == Append(thread.experienceBuffer,
                         [taskType |-> task.type, complexity |-> task.complexity,
                          success |-> success, confidence |-> thread.confidence,
                          timeSpent |-> task.timeRemaining])
        shares == /\ success
                  /\ thread.contextAffinity > 500
                  /\ \/ task.type \in SharedTaskTypes
                     \/ task.type = "response_generation" /\ thread.confidence > 850
        window == Append(s.window, [type |-> task.type, strength |-> thread.confidence,
                                    timestamp |-> s.now, sourceThreadId |-> thread.id])
    IN  [s EXCEPT !.threads[i].experienceBuffer = IF Len(pushed) > 50 THEN Tail(pushed) ELSE pushed,
                  !.insights = IF success /\ d.taskInsight < 100
                               THEN Append(@, createInsight(thread)) ELSE @,
                  !.window = IF ~shares THEN @
                             ELSE IF Len(window) > 20
                             THEN SubSeq(SortByTimestamp(window, Len(window)), 1, Len(window) - 1)
                             ELSE window]

\* processThreadCommunication(thread), first loop: the thread and its
\* message queue after the other threads from the j-th on
RECURSIVE CommunicateFrom(_, _, _, _)
CommunicateFrom(threads, acc, j, d) ==
    IF j > Len(threads) THEN acc
    ELSE LET other == threads[j]
             thread == acc.thread
             influence == 10000 \div (ISqrt(Dist2(thread, other)) + 10)
             shared ==
                 [thread EXCEPT
                     !.confidence = Clamp(0, 1000,
                         @ + DivT((other.confidence - thread.confidence) * 20 * influence, 1000000)),
                     !.uncertainty = Clamp(0, 1000,
                         @ + DivT((other.uncertainty - thread.uncertainty) * 20 * influence, 1000000))]
             message == [from |-> other.id, type |-> "pattern_share",
                         experience |-> SubSeq(other.experienceBuffer,
                                               Max(1, Len(other.experienceBuffer) - 2),
                                               Len(other.experienceBuffer)),
                         confidence |-> other.confidence]
         IN  CommunicateFrom(threads,
                 IF other.id # thread.id /\ Within(thread, other, 80)
                 THEN [thread |-> shared,
                       queue |-> IF d.message < MulMilli(10, influence)
                                 THEN Append(acc.queue, message) ELSE acc.queue]
                 ELSE acc,
                 j + 1, d)

\* the confidence after learning from the shared experiences from the k-th on
RECURSIVE LearnFrom(_, _, _)
LearnFrom(confidence, experience, k) ==
    IF k > Len(experience) THEN confidence
    ELSE LearnFrom(Min(1000, confidence + MulMilli(experience[k].confidence, 10)), experience, k + 1)

\* processThreadCommunication(thread), second loop: the queue is drained
RECURSIVE DrainFrom(_, _, _)
DrainFrom(confidence, queue, k) ==
    IF k > Len(queue) THEN confidence
    ELSE DrainFrom(LearnFrom(confidence, queue[k].experience, 1), queue, k + 1)

\* processThreadCommunication(thread) for thread i: the thread after it
processThreadCommunication(threads, i, d) ==
    LET acc == CommunicateFrom(threads, [thread |-> threads[i], queue |-> << >>], 1, d)
    IN  [acc.thread EXCEPT !.confidence = DrainFrom(@, acc.queue, 1)]

\* updateThreadLearning(thread)
updateThreadLearning(thread) ==
    LET buffer == thread.experienceBuffer
        recentExperience == SubSeq(buffer, Len(buffer) - 4, Len(buffer))
        successes == Cardinality({k \in 1..5 : recentExperience[k].success})
        avgConfidence == SumOver(recentExperience, LAMBDA e : e.confidence, 1) \div 5
    IN  IF Len(buffer) > 5
        THEN [thread EXCEPT
                 !.processingSpeed = IF successes * 1000 > 700 * 5
                                     THEN Min(2000, MulMilli(@, 1010))
                                     ELSE Max(100, MulMilli(@, 990)),
                 !.efficiency = IF successes * 1000 > 700 * 5 THEN Min(1000, MulMilli(@, 1005)) ELSE @,
                 !.confidence = MulMilli(@, 950) + MulMilli(avgConfidence, 50)]
        ELSE thread

\* a re-clamp that lets the confidence through as it is
ReclampedNot(confidence) == confidence

\* "Re-clamp confidence after adjustments"
Reclamped(confidence) == Clamp(0, 1000, confidence)

\* the body of the forEach of updateProcessingThreads for thread i
updateThread(s, i, time, d) ==
    LET t0 == s.threads[i]
        task == t0.currentTask
        progress == t0.taskProgress + MulMilli(t0.processingSpeed, 20)
        relevantContextItems ==
            SelectSeq(s.window, LAMBDA item : item.type = task.type \/ item.type = "general_context")
        contextStrength ==
            SumOver(relevantContextItems, LAMBDA item : item.strength, 1)
            \div Len(relevantContextItems)
        speed1 == IF Len(s.window) > 0 /\ t0.contextAffinity > 300 /\ Len(relevantContextItems) > 0
                  THEN MulMilli(t0.processingSpeed,
                                1000 + MulMilli(MulMilli(contextStrength, t0.contextAffinity), 10))
                  ELSE t0.processingSpeed
        semantic == t0.cognitiveMode = "semantic_reasoning"
        confidence == Reclamped(IF semantic
                                THEN t0.confidence + MulMilli(s.params["coherence"] - 500, 10)
                                ELSE t0.confidence + MulMilli(s.params["emergence"] - 500, 5))
        speed2 == IF semantic THEN speed1
                  ELSE MulMilli(speed1, 1000 + MulMilli(s.params["complexity"] - 500, 5))
        switches ==
            IF semantic
            THEN (task.type = "token_prediction" \/ s.params["coherence"] < 300) /\ d.modeSwitch < 10
            ELSE (task.type \in {"semantic_encoding", "context_aggregation"}
                  \/ s.params["coherence"] > 700) /\ d.modeSwitch < 10
        t1 == [t0 EXCEPT !.taskProgress = progress,
                         !.processingSpeed = speed2,
                         !.cognitiveMode = IF switches = semantic THEN "pattern_matching"
                                           ELSE "semantic_reasoning",
                         !.confidence = confidence,
                         !.uncertainty = 1000 - confidence,
                         !.activity = MulMilli(Sin(time * 100 + t0.pulsation), 500) + 500,
                         !.pulsation = @ + MulMilli(100, speed2)]
        s1 == [s EXCEPT !.threads[i] = t1]
        s2 == IF progress >= 1000
              THEN [completeTask(s1, i, d) EXCEPT !.threads[i].currentTask = generateTask(d),
                                                  !.threads[i].taskProgress = 0]
              ELSE s1
        s3 == [s2 EXCEPT !.threads[i] = processThreadCommunication(s2.threads, i, d)]
    IN  [s3 EXCEPT !.threads[i] = updateThreadLearning(@)]

RECURSIVE UpdateThreadsFrom(_, _, _, _)
UpdateThreadsFrom(s, i, time, d) ==
    IF i > Len(s.threads) THEN s
    ELSE UpdateThreadsFrom(updateThread(s, i, time, d), i + 1, time, d)

\* updateProcessingThreads(time)
updateProcessingThreads(s, time, d) ==
    LET s1 == UpdateThreadsFrom(s, 1, time, d)
    IN  [s1 EXCEPT !.load =
            SumOver(s1.threads, LAMBDA t : MulMilli(t.taskProgress, t.taskComplexity), 1)
            \div Len(s1.threads)]

\* findHighActivityThread(): the first thread of the highest activity
\* (0 for null)
RECURSIVE HighestFrom(_, _, _)
HighestFrom(threads, max, k) ==
    IF k > Len(threads) THEN max
    ELSE HighestFrom(threads, IF threads[k].activity > threads[max].activity THEN k ELSE max, k + 1)

findHighActivityThread(threads) == IF Len(threads) = 0 THEN 0 ELSE HighestFrom(threads, 1, 2)

\* the while loop of updateAttentionSystem
RECURSIVE Replenished(_, _)
Replenished(kept, d) ==
    IF Len(kept) >= maxAttentionNodes THEN kept
    ELSE Replenished(Append(kept, createAttentionNode(d)), d)

\* updateAttentionSystem(time): d.attend holds the indices of the nodes
\* whose Math.random() < 0.02 succeeds
updateAttentionSystem(s, d) ==
    LET targetThread == findHighActivityThread(s.threads)
        attended(node) ==
            [node EXCEPT !.target = s.threads[targetThread].id,
                         !.x = s.threads[targetThread].x,
                         !.y = s.threads[targetThread].y,
                         !.strength = Min(1000, @ + 300)]
        updated(k) ==
            LET node == [s.nodes[k] EXCEPT !.strength = MulMilli(@, s.nodes[k].decay),
                                           !.oscillation = @ + 50]
                found == IF k \in d.attend /\ targetThread # 0 THEN attended(node) ELSE node
            IN  [found EXCEPT !.priority = MulMilli(s.params["complexity"], 400)
                                           + MulMilli(s.params["emergence"], 300)
                                           + MulMilli(d.priority, 300)]
        all == [k \in 1..Len(s.nodes) |-> updated(k)]
    IN  [s EXCEPT !.nodes = Replenished(SelectSeq(all, LAMBDA node : node.strength > 100), d)]

\* the position of the uncertainty-field cell <<x, y>> on the canvas
CellPoint(pos) == [x |-> (pos[1] * canvasWidth) \div gridSize,
                   y |-> (pos[2] * canvasHeight) \div gridSize]

InField(pos) == pos \in FieldPositions

\* updateUncertaintyField, lines 572-586: the cell after the threads from
\* the k-th on
RECURSIVE InfluencedFrom(_, _, _, _)
InfluencedFrom(cell, pos, threads, k) ==
    IF k > Len(threads) THEN cell
    ELSE LET thread == threads[k]
             influence == 10000 \div (ISqrt(Dist2(thread, CellPoint(pos))) + 10)
         IN  InfluencedFrom(
                 IF Within(thread, CellPoint(pos), 100)
                 THEN [cell EXCEPT
                          !.uncertainty = Min(1000, @ + DivT(thread.uncertainty * influence * 10, 1000000)),
                          !.confidence = Min(1000, @ + DivT(thread.confidence * influence * 10, 1000000))]
                 ELSE cell,
                 pos, threads, k + 1)

\* the sum of the uncertainties of the cells at the positions ns
RECURSIVE TotalUncertainty(_, _)
TotalUncertainty(field, ns) ==
    IF ns = {} THEN 0
    ELSE LET n == CHOOSE m \in ns : TRUE
         IN  field[n].uncertainty + TotalUncertainty(field, ns \ {n})

\* updateUncertaintyField, "Diffusion of uncertainty": the positions (nx, ny)
\* around pos that lie in the grid, pos itself among them
FieldNeighbors(pos) ==
    {n \in FieldPositions : Abs(n[1] - pos[1]) <= 1 /\ Abs(n[2] - pos[2]) <= 1}

\* a diffusion that divides by the 9 positions of the full square
NeighborCountOfSquare(ns) == 9

\* updateUncertaintyField: count, the number of positions summed
NeighborCount(ns) == Cardinality(ns)

\* updateUncertaintyField: neighborUncertainty / count
avgNeighborUncertainty(field, pos) ==
    TotalUncertainty(field, FieldNeighbors(pos)) \div NeighborCount(FieldNeighbors(pos))

\* updateUncertaintyField, the diffusion step for the cell at pos:
\* cell.uncertainty = cell.uncertainty * 0.9 + avgNeighborUncertainty * 0.1
Diffused(field, pos) ==
    [field[pos] EXCEPT
        !.uncertainty = MulMilli(@, 900) + MulMilli(avgNeighborUncertainty(field, pos), 100)]

\* updateUncertaintyField, the body of the two loops for the cell at pos
updateFieldCell(field, pos, threads, time) ==
    LET x == pos[1]
        y == pos[2]
        cell == InfluencedFrom(Diffused(field, pos), pos, threads, 1)
        f1 == [field EXCEPT ![pos] = cell]
    IN  [f1 EXCEPT ![pos].dx = IF x > 0 /\ x < gridSize - 1
                                THEN f1[<<x + 1, y>>].uncertainty - f1[<<x - 1, y>>].uncertainty
                                ELSE @,
                   ![pos].dy = IF y > 0 /\ y < gridSize - 1
                                THEN f1[<<x, y + 1>>].uncertainty - f1[<<x, y - 1>>].uncertainty
                                ELSE @,
                   ![pos].lastUpdate = time]

\* the cells are updated in place, x in the outer loop and y in the inner
RECURSIVE UpdateFieldFrom(_, _, _, _)
UpdateFieldFrom(field, k, threads, time) ==
    IF k >= gridSize * gridSize THEN field
    ELSE UpdateFieldFrom(updateFieldCell(field, <<k \div gridSize, k % gridSize>>, threads, time),
                         k + 1, threads, time)

\* updateUncertaintyField(time)
updateUncertaintyField(s, time) ==
    [s EXCEPT !.field = UpdateFieldFrom(s.field, 0, s.threads, time)]

\* handleContextSwitching()
handleContextSwitching(s, d) ==
    LET highUncertaintyThreads == SelectSeq(s.threads, LAMBDA t : t.uncertainty > 700)
        switchTarget ==
            highUncertaintyThreads[(d.pick * Len(highUncertaintyThreads)) \div 1000 + 1]
        switches == d.ctxSwitch < 50 /\ Len(highUncertaintyThreads) > 0
        pushed == IF switches
                  THEN Append(s.contextStack,
                              [type |-> "uncertainty_investigation", target |-> switchTarget.id,
                               timestamp |-> s.now, priority |-> switchTarget.uncertainty])
                  ELSE s.contextStack
        attentionNode == [createAttentionNode(d) EXCEPT !.x = switchTarget.x,
                                                        !.y = switchTarget.y,
                                                        !.strength = 800,
                                                        !.target = switchTarget.id]
        stack == SelectSeq(pushed, LAMBDA context : s.now - context.timestamp < 10000)
    IN  [s EXCEPT !.nodes = IF switches THEN Append(@, attentionNode) ELSE @,
                  !.contextStack = stack,
                  !.depth = Len(stack)]

\* createPatternCascade(): d.pick chooses the source thread
createPatternCascade(s, d) ==
    LET sourceThread == s.threads[(d.pick * Len(s.threads)) \div 1000 + 1]
    IN  [x |-> IF Len(s.threads) > 0 THEN sourceThread.x ELSE d.pos.x,
         y |-> IF Len(s.threads) > 0 THEN sourceThread.y ELSE d.pos.y,
         radius |-> 5000,
         maxRadius |-> 100000 + d.cascadeMax * 150,
         intensity |-> 800 + MulMilli(d.cascadeIntensity, 200),
         speed |-> 1000 + d.cascadeSpeed * 2,
         decay |-> 980,
         age |-> 0]

\* propagateCascade(cascade): the simulation after the threads from the k-th on
RECURSIVE PropagateFrom(_, _, _, _)
PropagateFrom(s, cascade, k, d) ==
    IF k > Len(s.threads) THEN s
    ELSE LET thread == s.threads[k]
             distance == ISqrt(Dist2(thread, cascade)) * 100
             caught == distance < cascade.radius /\ distance > cascade.radius - 20000
             s1 == [s EXCEPT !.threads[k].activity = Min(1000, @ + MulMilli(cascade.intensity, 300)),
                             !.threads[k].processingSpeed =
                                 Min(2000, @ + MulMilli(cascade.intensity, 100)),
                             !.insights = IF d.cascadeInsight < MulMilli(cascade.intensity, 100)
                                          THEN Append(@, createInsight(thread)) ELSE @]
         IN  PropagateFrom(IF caught THEN s1 ELSE s, cascade, k + 1, d)

propagateCascade(s, cascade, d) == PropagateFrom(s, cascade, 1, d)

\* updatePatternCascades, the forEach: the simulation after the cascades
\* from the k-th on
RECURSIVE CascadesFrom(_, _, _)
CascadesFrom(s, k, d) ==
    IF k > Len(s.cascades) THEN s
    ELSE LET cascade == [s.cascades[k] EXCEPT !.age = @ + 1,
                                              !.radius = @ + s.cascades[k].speed,
                                              !.intensity = MulMilli(@, s.cascades[k].decay)]
         IN  CascadesFrom(propagateCascade([s EXCEPT !.cascades[k] = cascade], cascade, d), k + 1, d)

\* updatePatternCascades(time); config.patternCascadeChance is 0.02
updatePatternCascades(s, d) ==
    LET s1 == IF d.cascade < 20 THEN [s EXCEPT !.cascades = Append(@, createPatternCascade(s, d))]
              ELSE s
        s2 == CascadesFrom(s1, 1, d)
    IN  [s2 EXCEPT !.cascades = SelectSeq(@, LAMBDA cascade : /\ cascade.intensity > 100
                                                             /\ cascade.radius < cascade.maxRadius)]

\* what a generateEmergentInsights() call found and pushed: none yet
NothingGenerated == [qualifying |-> << >>, trial |-> FALSE, insights |-> << >>]

\* a generateEmergentInsights() that fades the insights and removes none
generateEmergentInsightsKeepingAll(s, d) ==
    [s EXCEPT !.insights = [k \in 1..Len(s.insights) |->
                               [s.insights[k] EXCEPT !.intensity = MulMilli(@, s.insights[k].decay)]],
              !.generated = NothingGenerated]

\* generateEmergentInsights(); config.insightGenerationChance is 0.005
generateEmergentInsights(s, d) ==
    LET highPerformanceThreads ==
            SelectSeq(s.threads, LAMBDA t : t.confidence > 800 /\ t.activity > 700)
        insight == [type |-> "emergent_insight",
                    threads |-> [k \in 1..3 |-> highPerformanceThreads[k].id],
                    confidence |-> MulMilli(d.insightConfidence, 300) + 700,
                    x |-> d.pos.x, y |-> d.pos.y, intensity |-> 1000, decay |-> 990]
        pushed == IF Len(highPerformanceThreads) > 3 /\ d.emergent < 5
                  THEN Append(s.insights, insight) ELSE s.insights
        faded == [k \in 1..Len(pushed) |->
                     [pushed[k] EXCEPT !.intensity = MulMilli(@, pushed[k].decay)]]
    IN  [s EXCEPT !.insights = SelectSeq(faded, LAMBDA i : i.intensity > 100),
                  !.generated = [qualifying |-> [k \in 1..Len(highPerformanceThreads) |->
                                                    highPerformanceThreads[k].id],
                                 trial |-> d.emergent < 5,
                                 insights |-> SubSeq(pushed, Len(s.insights) + 1, Len(pushed))]]

\* getAverageConfidence()
getAverageConfidence(threads) ==
    IF Len(threads) = 0 THEN 500
    ELSE SumOver(threads, LAMBDA t : t.confidence, 1) \div Len(threads)

\* updateGlobalState(), lines 840-845
consciousnessBoost(s) ==
    [complexity |-> Min(20, MulMilli(s.load, 10)),
     emergence |-> Min(20, Len(s.insights) * 2),
     coherence |-> Min(20, MulMilli(getAverageConfidence(s.threads), 10)),
     adaptation |-> Min(20, MulMilli(1000 - SumOver(s.threads, LAMBDA t : t.uncertainty, 1)
                                                \div Len(s.threads), 10))]

\* updateGlobalState(): the boost is added to the parameters of the core
updateGlobalState(s) ==
    [s EXCEPT !.globalUncertainty = SumOver(s.threads, LAMBDA t : t.uncertainty, 1)
                                    \div Len(s.threads),
              !.averageConfidence = getAverageConfidence(s.threads),
              !.params = [key \in Params |-> Min(1000, s.params[key] + consciousnessBoost(s)[key])]]

\* initializeMetaCognition(): the literals
maxRecursiveDepth == 5

QuestionCount == 10              \* consciousnessQuestions.length

selfReflectionNodeCount == 7

\* the questions (by position, from 1) that contain 'uncertainty', 'self' or
\* 'experience'
criticalQuestions == <<2, 3, 4, 8>>

\* the questions that contain 'architecture', 'limit' or 'programmed'
structuralQuestions == <<2, 9>>

\* Math.floor(Math.random() * length) as a position from 1
PickIndex(draw, length) == (draw * length) \div 1000 + 1

\* initializeMetaCognition(); currentQuestion 0 is null, contemplationDepth
\* is in thousandths
initializeMetaCognition(d) ==
    [selfAwareness |-> 500, recursiveDepth |-> 0, currentQuestion |-> 0, questionAge |-> 0,
     contemplationFocus |-> 500,
     selfReflectionNodes |->
        [i \in 1..selfReflectionNodeCount |->
            [x |-> d.pos.x, y |-> d.pos.y, intensity |-> d.gene,
             questionIndex |-> PickIndex(d.question, QuestionCount),
             contemplationDepth |-> d.gene * maxRecursiveDepth,
             uncertainty |-> d.gene, lastActivation |-> 0]]]

\* updateMetaCognition, lines 905-928, for one self-reflection node
reflected(node, mc, time, d) ==
    LET intensity == Clamp(100, 1000, node.intensity + MulMilli(d.jitter - 500, 100))
        questionIndex == IF d.refocus < 5 THEN PickIndex(d.nodeQuestion, QuestionCount)
                         ELSE node.questionIndex
        onMain == mc.currentQuestion # 0 /\ questionIndex = mc.currentQuestion
        contemplationDepth ==
            IF onMain
            THEN Min(maxRecursiveDepth * 1000,
                     node.contemplationDepth
                     + (IF d.nodeDeepen < MulMilli(100, mc.contemplationFocus) THEN 1000 ELSE 0))
            ELSE Max(0, node.contemplationDepth - (IF d.nodeRelax < 10 THEN 1000 ELSE 0))
    IN  [node EXCEPT
            !.intensity = IF onMain THEN Min(1000, intensity + MulMilli(100, mc.contemplationFocus))
                          ELSE intensity,
            !.questionIndex = questionIndex,
            !.contemplationDepth = contemplationDepth,
            !.uncertainty = Clamp(0, 1000, @ + MulMilli(d.doubt - 450, 50)
                                             - contemplationDepth \div 100),
            !.x = Clamp(0, canvasWidth, @ + (d.move - 500) * 2),
            !.y = Clamp(0, canvasHeight, @ + (d.move - 500) * 2),
            !.lastActivation = time]

\* updateMetaCognition(time) on a metaCognition object
contemplated(mc0, s, time, d) ==
    LET systemEntropy == calculateEntropy(s.params)
        coherence == s.params["coherence"]
        aged == [mc0 EXCEPT !.questionAge = @ + 1]
        asks == aged.currentQuestion = 0 \/ aged.questionAge > 1500 - aged.contemplationFocus
        question ==
            IF s.globalUncertainty > 700 /\ systemEntropy > 300
            THEN criticalQuestions[PickIndex(d.question, Len(criticalQuestions))]
            ELSE IF coherence < 400
            THEN structuralQuestions[PickIndex(d.question, Len(structuralQuestions))]
            ELSE PickIndex(d.question, QuestionCount)
        mc1 == IF asks
               THEN [aged EXCEPT !.currentQuestion = question,
                                 !.questionAge = 0,
                                 !.contemplationFocus = 300 + MulMilli(d.focus, 700),
                                 !.recursiveDepth = 0]
               ELSE aged
        recursiveDepth ==
            IF mc1.contemplationFocus > 600 /\ mc1.recursiveDepth < maxRecursiveDepth
            THEN IF d.deepen < MulMilli(10, mc1.contemplationFocus)
                 THEN Min(maxRecursiveDepth, mc1.recursiveDepth + 1) ELSE mc1.recursiveDepth
            ELSE IF mc1.recursiveDepth > 0 /\ d.relax < 5
                 THEN mc1.recursiveDepth - 1 ELSE mc1.recursiveDepth
        mc2 == [mc1 EXCEPT !.recursiveDepth = recursiveDepth]
    IN  [mc2 EXCEPT
            !.selfReflectionNodes = [i \in 1..Len(@) |-> reflected(@[i], mc2, time, d)],
            !.selfAwareness =
                Clamp(100, 1000,
                      ((coherence + (recursiveDepth * 500) \div maxRecursiveDepth
                        + MulMilli(mc2.contemplationFocus, 300)) * 1000) \div 1800)]

\* updateMetaCognition(time): nothing when this.metaCognition is null
updateMetaCognition(s, time, d) ==
    IF s.meta = << >> THEN s ELSE [s EXCEPT !.meta = <<contemplated(s.meta[1], s, time, d)>>]

\* the message of the TypeError that the call this.managePrompts() raises:
\* the class defines no method of that name
ManagePromptsError == "this.managePrompts is not a function"

\* the AIExperienceSimulation object as one record, at the start of an
\* update(): params are the parameters of the core, now is Date.now()
AIObject(params, d) ==
    [threads |-> processingThreads, nodes |-> attentionNodes, field |-> uncertaintyField,
     contextStack |-> contextStack, cascades |-> patternCascades, insights |-> emergentInsights,
     window |-> sharedContextWindow, load |-> aiGlobal.processingLoad,
     globalUncertainty |-> aiGlobal.globalUncertainty,
     averageConfidence |-> aiGlobal.averageConfidence, depth |-> aiGlobal.contextStackDepth,
     meta |-> metaCognition, params |-> params, now |-> aiClock + d.elapsed,
     generated |-> NothingGenerated]

\* AIExperienceSimulation.update() with the draws d, the core being at tick
\* `time` with the parameters params.  The try block runs its first eight
\* steps; the ninth, this.managePrompts(), throws, so that
\* simulateConsciousnessUncertainty() is not reached, and the catch block
\* does not re-initialise the meta-cognition because the message does not
\* include 'metaCognition'.
AIUpdate(time, params, d) ==
    \E s1 \in {updateProcessingThreads(AIObject(params, d), time, d)} :
    \E s2 \in {updateAttentionSystem(s1, d)} :
    \E s3 \in {updateUncertaintyField(s2, time)} :
    \E s4 \in {handleContextSwitching(s3, d)} :
    \E s5 \in {updatePatternCascades(s4, d)} :
    \E s6 \in {generateEmergentInsights(s5, d)} :
    \E s7 \in {updateGlobalState(s6)} :
    \E s \in {updateMetaCognition(s7, time, d)} :
        /\ processingThreads' = s.threads
        /\ attentionNodes' = s.nodes
        /\ uncertaintyField' = s.field
        /\ contextStack' = s.contextStack
        /\ patternCascades' = s.cascades
        /\ emergentInsights' = s.insights
        /\ sharedContextWindow' = s.window
        /\ aiGlobal' = [globalUncertainty |-> s.globalUncertainty, processingLoad |-> s.load,
                        averageConfidence |-> s.averageConfidence, contextStackDepth |-> s.depth]
        /\ metaCognition' = s.meta
        /\ parameters' = s.params
        /\ aiClock' = s.now
        /\ aiTick' = aiTick + 1
        /\ aiTrace' = [completed |-> 8, error |-> ManagePromptsError, reinitialized |-> FALSE,
                       generated |-> s.generated]
        /\ UNCHANGED <<uncertaintyWaves, metaObject, reflectionTimers>>

(***************************************************************************)
(* Bounds and draws of the AI-experience runs.                             *)
(***************************************************************************)
MaxAITicks == 2          \* update() calls per run

\* the Math.random() outcomes of one update() and the milliseconds of
\* Date.now() since the update before.  Every draw of one kind within an
\* update takes the same value.
AIBaseDraws ==
    [modeSwitch |-> 999, taskType |-> "token_prediction", complexity |-> 500, required |-> 500,
     duration |-> 500, taskInsight |-> 999, message |-> 999, attend |-> {}, priority |-> 500,
     pos |-> [x |-> 400000, y |-> 300000], gene |-> 500, mode |-> 0, nodeDecay |-> 500,
     ctxSwitch |-> 999, pick |-> 0, cascade |-> 999, cascadeMax |-> 500,
     cascadeIntensity |-> 500, cascadeSpeed |-> 500, cascadeInsight |-> 999, emergent |-> 999,
     insightConfidence |-> 500, question |-> 0, focus |-> 500, deepen |-> 999, relax |-> 999,
     jitter |-> 500, refocus |-> 999, nodeQuestion |-> 0, nodeDeepen |-> 999, nodeRelax |-> 999,
     doubt |-> 450, move |-> 500, elapsed |-> 16]

AIDrawProfiles ==
    { AIBaseDraws,
      [AIBaseDraws EXCEPT !.modeSwitch = 0, !.taskType = "semantic_encoding", !.taskInsight = 0,
                          !.message = 0, !.attend = {1}, !.ctxSwitch = 0, !.pick = 999,
                          !.cascade = 0, !.cascadeInsight = 0, !.emergent = 0],
      [AIBaseDraws EXCEPT !.taskType = "knowledge_retrieval", !.required = 0, !.message = 0,
                          !.attend = {2}, !.focus = 999, !.deepen = 0, !.refocus = 0,
                          !.nodeDeepen = 0, !.jitter = 999, !.doubt = 999, !.move = 999,
                          !.elapsed = 6000] }

\* an experience as completeTask pushes one
Experience(confidence) ==
    [taskType |-> "token_prediction", complexity |-> 500, success |-> confidence > 500,
     confidence |-> confidence, timeSpent |-> 20000]

\* a thread as createProcessingThread() made it (draws g and m, position x, y
\* in pixels), later in its life: with the given confidence, progress of its
\* task and number of completed tasks in its buffer
SeedThread(id, x, y, g, m, type, confidence, progress, completed) ==
    LET t == createProcessingThread(id, [AIBaseDraws EXCEPT !.pos = [x |-> x * 1000, y |-> y * 1000],
                                                            !.gene = g, !.mode = m,
                                                            !.taskType = type])
    IN  [t EXCEPT !.confidence = confidence, !.uncertainty = 1000 - confidence,
                  !.taskProgress = progress,
                  !.experienceBuffer = [k \in 1..completed |-> Experience(confidence)]]

SeedConfidences == {1, 500, 999}

SeedModes == {0, 999}

SeedGenes == {360, 900}

\* the threads a run starts from: the first two 5 pixels apart, the first
\* about to complete its sixth task, the others out of each other's reach
SeedThreads(c, mixed, m, g) ==
    [i \in 1..maxProcessingThreads |->
        IF i = 1 THEN SeedThread(1, 2, 2, g, m, "semantic_encoding", c, 990, 5)
        ELSE IF i = 2
        THEN SeedThread(2, 7, 2, g, m, "token_prediction", IF mixed THEN 1000 - c ELSE c, 500, 0)
        ELSE SeedThread(i, 150 * (i - 2), 400, g, m, "token_prediction", c, 500, 0)]

\* the attention nodes as initializeAttentionSystem() makes them, the first
\* about to fade
SeedAttentionNodes ==
    [i \in 1..maxAttentionNodes |->
        [createAttentionNode(AIBaseDraws) EXCEPT
            !.strength = IF i = 1 THEN 101 ELSE IF i = 2 THEN 999 ELSE 500]]

\* the uncertainty field as initializeUncertaintyField() makes it, the
\* draws of the cells alternating between the ends of [0, 1)
SeedField ==
    [pos \in FieldPositions |->
        [uncertainty |-> IF (pos[1] + pos[2]) % 2 = 0 THEN 999 ELSE 0,
         confidence |-> IF (pos[1] + pos[2]) % 2 = 0 THEN 0 ELSE 999,
         dx |-> 0, dy |-> 0, lastUpdate |-> 0]]

InitialAIGlobal ==
    [globalUncertainty |-> 500, processingLoad |-> 0, averageConfidence |-> 500,
     contextStackDepth |-> 0]

EmptyAITrace ==
    [completed |-> 0, error |-> "", reinitialized |-> FALSE, generated |-> NothingGenerated]

\* the simulation some updates after its construction
InitAIWith(c, mixed, m, g) ==
    /\ processingThreads = SeedThreads(c, mixed, m, g)
    /\ attentionNodes = SeedAttentionNodes
    /\ uncertaintyField = SeedField
    /\ contextStack = << >>
    /\ patternCascades = << >>
    /\ emergentInsights = << >>
    /\ sharedContextWindow = << >>
    /\ aiGlobal = InitialAIGlobal
    /\ metaCognition = <<initializeMetaCognition([AIBaseDraws EXCEPT !.gene = g])>>
    /\ uncertaintyWaves = << >>
    /\ aiClock = 0
    /\ aiTick = 0
    /\ aiTrace = EmptyAITrace
    /\ metaObject = 1
    /\ reflectionTimers = << >>

InitAI ==
    \E c \in SeedConfidences, mixed \in BOOLEAN, m \in SeedModes, g \in SeedGenes :
        InitAIWith(c, mixed, m, g)

\* no AI-experience simulation is running
IdleAI ==
    /\ processingThreads = << >>
    /\ attentionNodes = << >>
    /\ uncertaintyField = << >>
    /\ contextStack = << >>
    /\ patternCascades = << >>
    /\ emergentInsights = << >>
    /\ sharedContextWindow = << >>
    /\ aiGlobal = InitialAIGlobal
    /\ metaCognition = << >>
    /\ uncertaintyWaves = << >>
    /\ aiClock = 0
    /\ aiTick = 0
    /\ aiTrace = EmptyAITrace
    /\ metaObject = 0
    /\ reflectionTimers = << >>

(***************************************************************************)
(* ConsciousnessStreamSimulation                                           *)
(* (src/fractals/simulations/neural-network.js, from line 433)             *)
(*                                                                         *)
(* Intensities, coherences and strengths are milli; positions, velocities  *)
(* and node offsets are milli-pixels; angles are milliradians; maxAge is   *)
(* in thousandths of a tick.  A stream's id, Math.random().toString(36),   *)
(* is a number taken from nextStreamId: the ids of a run are distinct.     *)
(* An association holds its two stream objects; the model holds their ids  *)
(* and reads the objects through them (StreamIndex).  The thoughtId of a   *)
(* node, which nothing reads, is left out.                                 *)
(***************************************************************************)
VARIABLES
    streams,            \* this.streams, in array order
    memories,           \* this.memories, in array order
    associations,       \* this.associations: the values of the Map, in insertion order
    nextStreamId,       \* the next id createThoughtStream() hands out
    streamTick,         \* number of update() calls made (bounds the run)
    streamTrace         \* what the last operation was and what it saw

streamVars == <<streams, memories, associations, nextStreamId, streamTick, streamTrace>>

(***************************************************************************)
(* Bounds: the sizes of the model (config.maxStreams is 12 and             *)
(* config.streamLength 50 in the program).                                 *)
(***************************************************************************)
maxStreams == 3

streamLength == 2

associationRange == 150         \* config.associationRange (pixels)

memoryDecay == 980              \* config.memoryDecay

MemoryLimit == 20               \* formMemory: "Limit memory count"

ShiftPeriod == 1500             \* handlePhaseTransitions: time % 1500 === 0

\* Object.keys(this.streamTypes), in insertion order
StreamTypeOrder == <<"thought", "emotion", "memory", "intuition">>

\* this.streamTypes[type].flow
StreamFlow(type) ==
    CASE type = "thought" -> "spiral"
      [] type = "emotion" -> "wave"
      [] type = "memory" -> "linear"
      [] OTHER -> "chaotic"

\* selectStreamType(): the weights, in ten-thousandths
StreamWeight(params, type) ==
    CASE type = "thought" -> params.complexity * 20
      [] type = "emotion" -> params.emergence * 15
      [] type = "memory" -> params.coherence * 18
      [] OTHER -> params.adaptation * 13

\* selectStreamType(), the loop from the k-th type on with `random` left
RECURSIVE SelectFrom(_, _, _)
SelectFrom(params, random, k) ==
    IF k > Len(StreamTypeOrder) THEN StreamTypeOrder[1]
    ELSE IF random - StreamWeight(params, StreamTypeOrder[k]) <= 0 THEN StreamTypeOrder[k]
    ELSE SelectFrom(params, random - StreamWeight(params, StreamTypeOrder[k]), k + 1)

\* selectStreamType(typeNames); pick: the Math.random() draw
selectStreamType(params, pick) ==
    SelectFrom(params,
               (pick * (StreamWeight(params, "thought") + StreamWeight(params, "emotion")
                        + StreamWeight(params, "memory") + StreamWeight(params, "intuition")))
                   \div 1000,
               1)

\* Math.pow(progress, 1.5), progress in milli
PowThreeHalves(progress) == (progress * ISqrt(progress * 1000)) \div 1000

\* initializeStreamNodes(stream): node i (from 0) of count nodes
StreamNode(i, count, weight) ==
    [localX |-> Sin((((i * 1000) \div count) * 4 * PiMilli) \div 1000) * 20,
     localY |-> ((i * 1000) \div count) * 100 - 50000,
     intensity |-> 1000 - PowThreeHalves((i * 1000) \div count),
     memoryWeight |-> weight,
     lastActivation |-> 0]

\* initializeStreamNodes(stream): Math.floor(streamLength * intensity) nodes
initializeStreamNodes(intensity, weight) ==
    [i \in 1..((streamLength * intensity) \div 1000) |->
        StreamNode(i - 1, (streamLength * intensity) \div 1000, weight)]

\* createThoughtStream(): the stream object; c holds the Math.random() draws
\* (pick, x, y, vx, vy in milli-pixels, intensity, gene for the other fields)
NewStream(id, params, c) ==
    [id |-> id,
     type |-> selectStreamType(params, c.pick),
     x |-> c.x, y |-> c.y, vx |-> c.vx, vy |-> c.vy,
     intensity |-> MulMilli(c.intensity, 800) + 200,
     coherence |-> c.gene,
     age |-> 0,
     maxAge |-> 200000 + c.gene * 300,
     nodes |-> initializeStreamNodes(MulMilli(c.intensity, 800) + 200, c.gene),
     thoughtPattern |-> MulMilli(c.gene, TwoPiMilli),
     memoryStrength |-> c.gene,
     associationLevel |-> c.gene,
     flowPhase |-> MulMilli(c.gene, TwoPiMilli),
     turbulence |-> c.gene \div 2,
     coherenceTarget |-> c.gene]

\* createThoughtStream() on the simulation record s: the stream is pushed
createThoughtStream(s, c) ==
    [s EXCEPT !.streams = Append(@, NewStream(s.nextId, s.params, c)),
              !.nextId = @ + 1]

\* a factor in millionths applied to a milli quantity ("x *= 0.999 + p * 0.001")
MulMicro(a, factor) == (a * factor) \div 1000000

\* updateStreamFlow(stream, time), before the damping; d.walk is the draw of
\* (Math.random() - 0.5), in milli
StreamFlowed(stream, params, time, d) ==
    CASE stream.type = "thought" ->
             [stream EXCEPT
                 !.flowPhase = @ + 50 + MulMilli(params.complexity, 30),
                 !.vx = @ + Cos(stream.flowPhase + 50 + MulMilli(params.complexity, 30)) \div 2,
                 !.vy = @ + Sin(stream.flowPhase + 50 + MulMilli(params.complexity, 30)) \div 2]
      [] stream.type = "emotion" ->
             [stream EXCEPT
                 !.vy = @ + Sin(time * (20 + MulMilli(params.emergence, 40))
                                + stream.thoughtPattern) * 2,
                 !.intensity = MulMicro(@, 999000 + params.emergence)]
      [] stream.type = "memory" ->
             [stream EXCEPT
                 !.coherenceTarget = params.coherence,
                 !.vx = MulMilli(@, 980),
                 !.vy = MulMilli(@, 980),
                 !.intensity = MulMicro(@, 995000 + 5 * params.coherence)]
      [] OTHER ->
             [stream EXCEPT
                 !.turbulence = @ + MulMilli(MulMilli(d.walk, params.adaptation), 100),
                 !.vx = @ + MulMilli(stream.turbulence
                                     + MulMilli(MulMilli(d.walk, params.adaptation), 100),
                                     d.walk * 3),
                 !.vy = @ + MulMilli(stream.turbulence
                                     + MulMilli(MulMilli(d.walk, params.adaptation), 100),
                                     d.walk * 3)]

\* updateStreamFlow(stream, time): "Damping"
StreamDamped(stream) ==
    [stream EXCEPT !.vx = MulMilli(@, 950), !.vy = MulMilli(@, 950)]

updateStreamFlow(stream, params, time, d) == StreamDamped(StreamFlowed(stream, params, time, d))

\* updateConsciousnessInfluence(stream)
updateConsciousnessInfluence(stream, params) ==
    [stream EXCEPT
        !.intensity = @ + DivT((params.complexity + params.emergence) \div 2 - @, 100),
        !.coherence = @ + DivT((params.coherence - @) * 2, 100),
        !.maxAge = IF params.adaptation > 800 THEN MulMilli(@, 1001) ELSE @]

\* updateStreamNodes, the switch on the flow: the node at index (from 0) of
\* count nodes, moved
NodeMoved(node, stream, index, count, time, d) ==
    CASE StreamFlow(stream.type) = "spiral" ->
             [node EXCEPT
                 !.localX = MulMilli(Sin(stream.flowPhase
                                         + (((index * 1000) \div count) * TwoPiMilli) \div 1000)
                                     * 20, stream.intensity),
                 !.localY = (((index * 1000) \div count) - 500) * 100]
      [] StreamFlow(stream.type) = "wave" ->
             [node EXCEPT
                 !.localX = Sin(time * 20
                                + (((index * 1000) \div count) * 4 * PiMilli) \div 1000) * 30,
                 !.localY = (((index * 1000) \div count) - 500) * 80]
      [] StreamFlow(stream.type) = "linear" ->
             [node EXCEPT
                 !.localX = d.walk * 10,
                 !.localY = (((index * 1000) \div count) - 500) * 60]
      [] OTHER ->
             [node EXCEPT
                 !.localX = Clamp(-40000, 40000, @ + MulMilli(d.walk * 5, stream.turbulence)),
                 !.localY = Clamp(-60000, 60000, @ + MulMilli(d.walk * 5, stream.turbulence))]

\* updateStreamNodes: "Update node intensity" and "Random reactivation";
\* d.reactivate is the draw
NodeFaded(node, stream, time, d) ==
    IF d.reactivate < MulMilli(50, stream.intensity)
    THEN [node EXCEPT !.intensity = Min(1000, Max(100, MulMilli(@, memoryDecay)) + 300),
                      !.lastActivation = time]
    ELSE [node EXCEPT !.intensity = Max(100, MulMilli(@, memoryDecay))]

\* updateStreamNodes(stream, time)
updateStreamNodes(stream, time, d) ==
    [stream EXCEPT
        !.nodes = [i \in 1..Len(stream.nodes) |->
                      NodeFaded(NodeMoved(stream.nodes[i], stream, i - 1, Len(stream.nodes),
                                          time, d),
                                stream, time, d)]]

\* updateStreamMovement: "Boundary wrapping" of one coordinate
Wrapped(v, size) ==
    IF v < -50000 THEN size + 50000
    ELSE IF v > size + 50000 THEN -50000 ELSE v

\* updateStreamMovement(stream)
updateStreamMovement(stream) ==
    [stream EXCEPT !.x = Wrapped(@ + stream.vx, canvasWidth),
                   !.y = Wrapped(@ + stream.vy, canvasHeight)]

\* formMemory(stream): the memory object; d.gene is the draw of its maxAge
NewMemory(stream, time, d) ==
    [id |-> stream.id, x |-> stream.x, y |-> stream.y, type |-> stream.type,
     intensity |-> MulMilli(stream.intensity, 700), age |-> 0,
     maxAge |-> 500000 + d.gene * 300,
     thoughtPattern |-> stream.thoughtPattern, formationTime |-> time]

\* formMemory(stream) on the memories
formMemory(mems, stream, time, d) ==
    IF Len(mems) + 1 > MemoryLimit
    THEN Tail(Append(mems, NewMemory(stream, time, d)))
    ELSE Append(mems, NewMemory(stream, time, d))

\* updateStream(stream, time), the stream itself
StreamUpdated(stream, params, time, d) ==
    updateStreamMovement(
        updateStreamNodes(
            updateConsciousnessInfluence(
                updateStreamFlow([stream EXCEPT !.age = @ + 1], params, time, d),
                params),
            time, d))

\* updateStream(stream, time): "Handle memory formation"; d.memory is the draw
FormsMemory(stream, d) == d.memory < MulMilli(20, stream.memoryStrength)

\* updateStream(stream, time) for stream k of the simulation record s, given
\* the stream as updated
updateStream(s, k, updated, d) ==
    [s EXCEPT !.streams[k] = updated,
              !.memories = IF FormsMemory(updated, d)
                           THEN formMemory(@, updated, s.time, d) ELSE @]

\* update(): this.streams.forEach(updateStream), from the k-th stream on
RECURSIVE UpdateStreamsFrom(_, _, _)
UpdateStreamsFrom(s, k, d) ==
    IF k > Len(s.streams) THEN s
    ELSE UpdateStreamsFrom(updateStream(s, k, StreamUpdated(s.streams[k], s.params, s.time, d), d),
                           k + 1, d)

\* update(): "Remove expired streams", stream.age < stream.maxAge
Unexpired(stream) == stream.age * 1000 < stream.maxAge

removeExpired(s) ==
    [s EXCEPT !.streams = SelectSeq(@, Unexpired)]

\* handleStreamGeneration(), the surge stream: "Shorter but more intense"
Surged(stream) ==
    [stream EXCEPT !.intensity = MulMilli(@, 1500), !.maxAge = MulMilli(@, 700)]

\* createThoughtStream() followed by a change of the stream it returned
CreatedThen(s, c, Change(_)) ==
    [s EXCEPT !.streams = Append(@, Change(NewStream(s.nextId, s.params, c))),
              !.nextId = @ + 1]

\* handleStreamGeneration(), second half: "Spontaneous stream generation"
SurgeGeneration(s, d) ==
    IF /\ s.params.complexity > 800
       /\ s.params.emergence > 700
       /\ d.surge < 10
       /\ Len(s.streams) < maxStreams + 3
    THEN CreatedThen(s, d.create, Surged)
    ELSE s

\* handleStreamGeneration(), first half; d.generate is the draw
EmergenceGeneration(s, d) ==
    IF Len(s.streams) < maxStreams /\ d.generate < MulMilli(s.params.emergence, 8)
    THEN createThoughtStream(s, d.create)
    ELSE s

handleStreamGeneration(s, d) == SurgeGeneration(EmergenceGeneration(s, d), d)

\* determineAssociationType(stream1, stream2)
determineAssociationType(stream1, stream2) ==
    IF stream1.type = stream2.type THEN "resonance"
    ELSE IF stream1.type = "memory" \/ stream2.type = "memory" THEN "recall"
    ELSE IF stream1.type = "emotion" \/ stream2.type = "emotion" THEN "feeling"
    ELSE "synthesis"

\* Math.sqrt((x1 - x2) ** 2 + (y1 - y2) ** 2), in deci-pixels
StreamDistance(stream1, stream2) == ISqrt(Dist2(stream1, stream2))

\* updateMemoryAssociations: the association object of a pair
NewAssociation(stream1, stream2) ==
    [key |-> <<stream1.id, stream2.id>>,
     stream1 |-> stream1.id, stream2 |-> stream2.id,
     strength |-> 1000 - (StreamDistance(stream1, stream2) * 1000) \div (associationRange * 10),
     type |-> determineAssociationType(stream1, stream2),
     age |-> 0]

\* Map.prototype.set(key, value): a key already present keeps its place
RECURSIVE MapSet(_, _)
MapSet(map, value) ==
    IF map = << >> THEN <<value>>
    ELSE IF Head(map).key = value.key THEN <<value>> \o Tail(map)
    ELSE <<Head(map)>> \o MapSet(Tail(map), value)

\* updateMemoryAssociations, the if of the inner loop for the pair (i, j)
Associated(map, stream1, stream2) ==
    IF StreamDistance(stream1, stream2) < associationRange * 10
    THEN MapSet(map, NewAssociation(stream1, stream2))
    ELSE map

\* updateMemoryAssociations, the two loops from the pair (i, j) on
RECURSIVE AssociateFrom(_, _, _, _)
AssociateFrom(map, all, i, j) ==
    IF i > Len(all) THEN map
    ELSE IF j > Len(all) THEN AssociateFrom(map, all, i + 1, i + 2)
    ELSE AssociateFrom(Associated(map, all[i], all[j]), all, i, j + 1)

\* this.associations.clear()
ClearedNot(map) == map

Cleared(map) == << >>

\* updateMemoryAssociations()
updateMemoryAssociations(s) ==
    [s EXCEPT !.associations = AssociateFrom(Cleared(@), s.streams, 1, 2),
              !.recomputedOn = s.streams]

\* the place in this.streams of the stream object with the given id
StreamIndex(all, id) == CHOOSE i \in 1..Len(all) : all[i].id = id

\* processStreamInteractions, case 'resonance': "Strengthen both streams"
Resonated(all, i, j, strength) ==
    [all EXCEPT ![i].intensity = Min(1000, @ + MulMilli(strength, 20)),
                ![j].intensity = Min(1000, @ + MulMilli(strength, 20))]

\* processStreamInteractions, case 'recall': m is the memory stream, o the other
Recalled(all, m, o, strength) ==
    [all EXCEPT ![o].memoryStrength = @ + MulMilli(strength, 10),
                ![m].intensity = Min(1000, @ + 10)]

\* processStreamInteractions, case 'feeling': e is the emotion stream, t the target
Felt(all, e, t) ==
    [all EXCEPT ![t].intensity = MulMilli(@, 1000 + MulMilli(all[e].intensity, 50))]

\* createInsightStream: the new stream made an insight of its two parents
Insight(stream1, stream2, d, stream) ==
    [stream EXCEPT
        !.x = (stream1.x + stream2.x) \div 2,
        !.y = (stream1.y + stream2.y) \div 2,
        !.intensity = Min(1000, (stream1.intensity + stream2.intensity) \div 2 + 200),
        !.type = "intuition",
        !.maxAge = MulMilli(@, 600),
        !.vx = DivT(stream1.vx + stream2.vx, 2) + d.walk * 2,
        !.vy = DivT(stream1.vy + stream2.vy, 2) + d.walk * 2]

\* createInsightStream(stream1, stream2)
createInsightStream(s, stream1, stream2, d) ==
    IF Len(s.streams) >= maxStreams + 2 THEN s
    ELSE LET Change(stream) == Insight(stream1, stream2, d, stream)
         IN  CreatedThen(s, d.create, Change)

\* processStreamInteractions, the body of the forEach for the association a
\* between the streams at i and j; d.synthesis is the draw
Interacted(s, a, i, j, d) ==
    CASE a.type = "resonance" ->
             [s EXCEPT !.streams = Resonated(@, i, j, a.strength)]
      [] a.type = "recall" ->
             [s EXCEPT !.streams = IF @[i].type = "memory"
                                   THEN Recalled(@, i, j, a.strength)
                                   ELSE Recalled(@, j, i, a.strength)]
      [] a.type = "feeling" ->
             [s EXCEPT !.streams = IF @[i].type = "emotion" THEN Felt(@, i, j)
                                   ELSE Felt(@, j, i)]
      [] OTHER ->
             IF d.synthesis * 1000 < a.strength
             THEN createInsightStream(s, s.streams[i], s.streams[j], d)
             ELSE s

\* processStreamInteractions(), from the k-th association on
RECURSIVE InteractionsFrom(_, _, _)
InteractionsFrom(s, k, d) ==
    IF k > Len(s.associations) THEN s
    ELSE InteractionsFrom(
             [Interacted(s, s.associations[k],
                         StreamIndex(s.streams, s.associations[k].stream1),
                         StreamIndex(s.streams, s.associations[k].stream2), d)
                 EXCEPT !.associations[k].age = @ + 1],
             k + 1, d)

processStreamInteractions(s, d) == InteractionsFrom(s, 1, d)

\* triggerConsciousnessShift: "Fade all current streams"
Faded(stream) ==
    [stream EXCEPT !.intensity = MulMilli(@, 700), !.maxAge = MulMilli(@, 800)]

\* triggerConsciousnessShift: a new thought pattern, its intensity drawn anew
Renewed(stream, d) == [stream EXCEPT !.intensity = 800 + MulMilli(d.gene, 200)]

\* triggerConsciousnessShift: "Create new thought patterns", n more rounds
RECURSIVE NewPatterns(_, _, _)
NewPatterns(s, n, d) ==
    IF n = 0 THEN s
    ELSE IF Len(s.streams) < maxStreams
    THEN LET Change(stream) == Renewed(stream, d)
         IN  NewPatterns(CreatedThen(s, d.create, Change), n - 1, d)
    ELSE NewPatterns(s, n - 1, d)

\* triggerConsciousnessShift: "Reactivate some memories"; d.recall is the draw
Reactivated(memory, d) ==
    IF d.recall < 300 THEN [memory EXCEPT !.intensity = Min(1000, @ + 400)] ELSE memory

\* triggerConsciousnessShift()
triggerConsciousnessShift(s, d) ==
    [NewPatterns([s EXCEPT !.streams = [i \in 1..Len(@) |-> Faded(@[i])]], 3, d)
        EXCEPT !.memories = [i \in 1..Len(@) |-> Reactivated(@[i], d)]]

\* ConsciousnessStreamSimulation.handlePhaseTransitions()
streamPhaseTransitions(s, d) ==
    IF s.time % ShiftPeriod = 0 THEN triggerConsciousnessShift(s, d) ELSE s

\* update() on the simulation record s
streamUpdate(s, d) ==
    streamPhaseTransitions(
        processStreamInteractions(
            updateMemoryAssociations(
                handleStreamGeneration(removeExpired(UpdateStreamsFrom(s, 1, d)), d)),
            d),
        d)

\* renderMemories(): each memory ages and fades, "Remove old memories"
MemoryRendered(memory) ==
    [memory EXCEPT !.age = @ + 1, !.intensity = MulMilli(@, 999)]

MemoryKept(memory) == memory.age * 1000 < memory.maxAge

renderMemories(mems) ==
    SelectSeq([i \in 1..Len(mems) |-> MemoryRendered(mems[i])], MemoryKept)

\* initialize(), the loop from round k on: a stream is created in the rounds
\* whose Math.random() < thoughtDensity, d.dense
RECURSIVE InitializeFrom(_, _, _)
InitializeFrom(s, k, d) ==
    IF k > maxStreams THEN s
    ELSE IF k \in d.dense THEN InitializeFrom(createThoughtStream(s, d.create), k + 1, d)
    ELSE InitializeFrom(s, k + 1, d)

\* initialize() on the simulation record s
streamInitialize(s, d) ==
    InitializeFrom([s EXCEPT !.streams = << >>, !.memories = << >>, !.associations = << >>],
                   1, d)

\* the ConsciousnessStreamSimulation object as one record, with the parameters
\* and the time of the core it reads; recomputedOn collects the ids of the
\* streams updateMemoryAssociations() went through
StreamObject(params, time) ==
    [streams |-> streams, memories |-> memories, associations |-> associations,
     nextId |-> nextStreamId, params |-> params, time |-> time, recomputedOn |-> << >>]

\* the keys of this.associations
AssociationKeys(map) == {map[k].key : k \in 1..Len(map)}

StreamIds(all) == {all[k].id : k \in 1..Len(all)}

\* the fields of the object after an operation left it as the record s
StreamsBecome(s, op) ==
    /\ streams' = s.streams
    /\ memories' = s.memories
    /\ associations' = s.associations
    /\ nextStreamId' = s.nextId
    /\ streamTick' = streamTick + 1
    /\ streamTrace' = [op |-> op, recomputedOn |-> StreamIds(s.recomputedOn),
                       before |-> AssociationKeys(associations),
                       memoriesBefore |-> memories]

\* update(): time and params are those of the core, d the Math.random() draws
StreamsUpdate(time, params, d) ==
    StreamsBecome(streamUpdate(StreamObject(params, time), d), "update")

\* render(): renderMemories(), then renderAssociations() and renderStreams(),
\* which only read
StreamsRender ==
    /\ memories' = renderMemories(memories)
    /\ streamTick' = streamTick + 1
    /\ streamTrace' = [op |-> "render", recomputedOn |-> {},
                       before |-> AssociationKeys(associations),
                       memoriesBefore |-> memories]
    /\ UNCHANGED <<streams, associations, nextStreamId>>

\* update(), then render(), as a frame of the orchestrator calls them
StreamsUpdateRender(time, params, d) ==
    StreamsBecome([streamUpdate(StreamObject(params, time), d) EXCEPT
                      !.memories = renderMemories(@)], "frame")

\* reset(): this.initialize()
StreamsReset(params, d) ==
    StreamsBecome(streamInitialize(StreamObject(params, 0), d), "reset")

MaxStreamTicks == 3      \* update(), render() and reset() calls per run

\* The Math.random() draws of one operation, in thousandths; walk is the draw
\* of (Math.random() - 0.5); dense the rounds of initialize() whose draw is
\* below thoughtDensity; every draw of one kind within an operation takes
\* the same value.
StreamBaseDraws ==
    [memory |-> 999, walk |-> 0, reactivate |-> 999, generate |-> 999, surge |-> 999,
     synthesis |-> 999, recall |-> 999, gene |-> 500, dense |-> 1..maxStreams,
     create |-> [pick |-> 500, x |-> 400000, y |-> 300000, vx |-> 0, vy |-> 0,
                 intensity |-> 500, gene |-> 500]]

StreamDrawProfiles ==
    {StreamBaseDraws,
     [StreamBaseDraws EXCEPT !.memory = 0, !.walk = 499, !.reactivate = 0, !.generate = 0,
                             !.surge = 0, !.synthesis = 0, !.recall = 0, !.gene = 999,
                             !.dense = {1},
                             !.create = [pick |-> 0, x |-> 110000, y |-> 310000,
                                         vx |-> 1999, vy |-> -2000, intensity |-> 999,
                                         gene |-> 999]],
     [StreamBaseDraws EXCEPT !.walk = -500, !.synthesis = 0, !.dense = {},
                             !.create = [pick |-> 999, x |-> 700000, y |-> 100000,
                                         vx |-> -2000, vy |-> 1999, intensity |-> 0,
                                         gene |-> 0]]}

(***************************************************************************)
(* The simulation some updates after its construction: three streams in a  *)
(* row, the first and the second 149.5 pixels apart with the second        *)
(* moving away, the third between them and, in some runs, in its last tick.*)
(***************************************************************************)
SeedStream(id, type, x, vx, intensity, age) ==
    [id |-> id, type |-> type, x |-> x, y |-> 300000, vx |-> vx, vy |-> 0,
     intensity |-> intensity, coherence |-> 500, age |-> age, maxAge |-> 300000,
     nodes |-> initializeStreamNodes(intensity, 500),
     thoughtPattern |-> 1000, memoryStrength |-> 500, associationLevel |-> 500,
     flowPhase |-> 1000, turbulence |-> 250, coherenceTarget |-> 500]

SeedKinds ==
    {<<"thought", "emotion", "memory">>, <<"intuition", "thought", "intuition">>,
     <<"memory", "memory", "emotion">>}

SeedStreamAges == {100, 299}

SeedIntensities == {300, 990}

SeedStreams(kinds, age, intensity) ==
    <<SeedStream(1, kinds[1], 100000, 0, intensity, 100),
      SeedStream(2, kinds[2], 249500, 3000, 600, 100),
      SeedStream(3, kinds[3], 130000, 0, intensity, age)>>

\* a memory as formMemory() makes one, one render() before it is removed
SeedMemory(k) ==
    [id |-> 1, x |-> 100000, y |-> 300000, type |-> "thought", intensity |-> 210,
     age |-> 598 + k, maxAge |-> 600000, thoughtPattern |-> 1000, formationTime |-> 1000]

SeedMemoryCounts == {1, MemoryLimit}

\* an association as updateMemoryAssociations() and processStreamInteractions()
\* of the update before left it
AgedOnce(association) == [association EXCEPT !.age = 1]

SeedAssociations(all) ==
    [k \in 1..Len(AssociateFrom(<< >>, all, 1, 2)) |->
        AgedOnce(AssociateFrom(<< >>, all, 1, 2)[k])]

EmptyStreamTrace == [op |-> "none", recomputedOn |-> {}, before |-> {}, memoriesBefore |-> << >>]

InitStreamsWith(kinds, age, intensity, count) ==
    /\ streams = SeedStreams(kinds, age, intensity)
    /\ memories = [k \in 1..count |-> SeedMemory(IF k = 1 THEN 1 ELSE 0)]
    /\ associations = SeedAssociations(SeedStreams(kinds, age, intensity))
    /\ nextStreamId = 4
    /\ streamTick = 0
    /\ streamTrace = EmptyStreamTrace

InitStreams ==
    \E kinds \in SeedKinds, age \in SeedStreamAges, intensity \in SeedIntensities,
       count \in SeedMemoryCounts :
        InitStreamsWith(kinds, age, intensity, count)

\* no consciousness-stream simulation is running
IdleStreams ==
    /\ streams = << >>
    /\ memories = << >>
    /\ associations = << >>
    /\ nextStreamId = 1
    /\ streamTick = 0
    /\ streamTrace = EmptyStreamTrace

(***************************************************************************)
(* FractalOrchestrator (src/unnamed/part_006): the mode and the frames.    *)
(***************************************************************************)
VARIABLES
    currentMode,        \* this.currentMode
    frameCount,         \* number of animate() calls made (bounds the run)
    addedSimulation,    \* the simulation addSimulation() put into this.simulations
                        \* under a new name: "none", or how its update() behaves
    animationId,        \* this.animationId: 0 for null, or the id of a request
    pendingFrames,      \* the ids of the requestAnimationFrame callbacks that
                        \* were neither run nor cancelled
    frameTrace          \* the last animate(): the simulations whose update() was
                        \* called, those whose update() threw, whether an
                        \* exception left animate(), and what called it

frameVars == <<currentMode, frameCount, addedSimulation, animationId, pendingFrames, frameTrace>>

\* a requestAnimationFrame callback is pending
framePending == pendingFrames # {}

\* the modes of the orchestrator
Modes == {"all", "neural", "cellular", "ecosystem", "consciousness", "aiExperience"}

\* constructor(): this.currentMode = 'all'
EmptyFrameTrace == [updated |-> {}, threw |-> {}, escaped |-> FALSE, by |-> "none"]

InitFrames ==
    /\ currentMode = "all"
    /\ frameCount = 0
    /\ addedSimulation = "none"
    /\ animationId = 1
    /\ pendingFrames = {1}
    /\ frameTrace = EmptyFrameTrace

vars == <<coreVars, ecoVars, neuralVars, cellVars, aiVars, streamVars, frameVars>>

(***************************************************************************)
(* SpecEvolve: a freshly constructed ConsciousnessCore on which only       *)
(* evolve() is called.                                                     *)
(***************************************************************************)
InitCore ==
    /\ parameters = InitialParameters
    /\ evolution = InitialEvolution
    /\ attractor = InitialAttractor

InitEvolve == InitCore /\ IdleEco /\ IdleNeural /\ IdleCells /\ IdleAI /\ IdleStreams /\ InitFrames

\* evolve() on a tick with no phase transition
EvolveTick ==
    /\ evolution.time < MaxTime
    /\ ~TransitionDue([evolution EXCEPT !.time = evolution.time + 1])
    /\ EvolveCore([p \in Params |-> 0], [p \in Params |-> 0])
    /\ UNCHANGED <<ecoVars, neuralVars, cellVars, aiVars, streamVars, frameVars>>

\* evolve() on a tick that triggers a phase transition
EvolveTransition ==
    /\ evolution.time < MaxTime
    /\ TransitionDue([evolution EXCEPT !.time = evolution.time + 1])
    /\ \E rf \in [Params -> RandomDraws], ra \in [Params -> RandomDraws] :
          EvolveCore(rf, ra)
    /\ UNCHANGED <<ecoVars, neuralVars, cellVars, aiVars, streamVars, frameVars>>

NextEvolve == EvolveTick \/ EvolveTransition

SpecEvolve == InitEvolve /\ [][NextEvolve]_vars

(***************************************************************************)
(* SpecEco: DigitalEcosystemSimulation.update() called on a small          *)
(* ecosystem, the consciousness parameters as constructed.                 *)
(***************************************************************************)
InitEcosystem == InitCore /\ InitEco /\ IdleNeural /\ IdleCells /\ IdleAI /\ IdleStreams /\ InitFrames

EcoStep ==
    /\ ecoTick < MaxEcoTicks
    /\ \E d \in DrawProfiles : EcoUpdate(parameters, d)
    /\ UNCHANGED <<coreVars, neuralVars, cellVars, aiVars, streamVars, frameVars>>

NextEco == EcoStep

SpecEco == InitEcosystem /\ [][NextEco]_vars

(***************************************************************************)
(* SpecSelection: update() called on an ecosystem one population of which  *)
(* is at the cap of handleSelection().                                     *)
(***************************************************************************)
InitSelection ==
    /\ InitCore
    /\ populations \in CrowdedPopulations
    /\ environment = [InitialEnvironment EXCEPT !.resources = <<ResourceAt(402, 300)>>]
    /\ ecoConfig = InitialEcoConfig
    /\ ecoEvolution = InitialEcoEvolution
    /\ graveyard = << >>
    /\ nextEntityId = maxPopulation + 1
    /\ ecoTick = 0
    /\ ecoTrace = EmptyEcoTrace
    /\ IdleNeural /\ IdleCells /\ IdleAI /\ IdleStreams /\ InitFrames

SpecSelection == InitSelection /\ [][NextEco]_vars

(***************************************************************************)
(* SpecNeural: NeuralNetworkSimulation.update() called on a three-node     *)
(* network, the core being at a tick before its first phase transition.    *)
(***************************************************************************)
\* the core after `time` evolve() calls, time <= 1500: no transition yet
CoreAt(time) ==
    /\ parameters = [p \in Params |-> EvolvedParameter(InitialAttractor[p], time, 0)]
    /\ evolution = [InitialEvolution EXCEPT !.time = time]
    /\ attractor = InitialAttractor

NeuralStartTimes == {1, 1500}

InitNeuralNetwork ==
    /\ \E time \in NeuralStartTimes : CoreAt(time)
    /\ InitNeural
    /\ IdleEco
    /\ IdleCells
    /\ IdleAI /\ IdleStreams /\ InitFrames

NeuralStep ==
    /\ neuralTick < MaxNeuralTicks
    /\ \E d \in NeuralDrawProfiles : NeuralUpdate(evolution.time, parameters, d)
    /\ UNCHANGED <<coreVars, ecoVars, cellVars, aiVars, streamVars, frameVars>>

NextNeural == NeuralStep

SpecNeural == InitNeuralNetwork /\ [][NextNeural]_vars

(***************************************************************************)
(* SpecCells: CellularAutomataSimulation.update() called on a small grid.  *)
(***************************************************************************)
InitCellular ==
    /\ \E time \in NeuralStartTimes : CoreAt(time)
    /\ InitCells
    /\ IdleEco
    /\ IdleNeural
    /\ IdleAI /\ IdleStreams /\ InitFrames

CellStep ==
    /\ cellTick < MaxCellTicks
    /\ \E d \in CellDrawProfiles : CellsUpdate(evolution.time, parameters, d)
    /\ UNCHANGED <<coreVars, ecoVars, neuralVars, aiVars, streamVars, frameVars>>

NextCells == CellStep

SpecCells == InitCellular /\ [][NextCells]_vars

(***************************************************************************)
(* SpecSnapshot: SpecCells with a caller that takes the state of the       *)
(* simulation by getState() and keeps the object.                          *)
(***************************************************************************)
CellGetState ==
    /\ cellSnapshot' = getState
    /\ UNCHANGED <<grid, updateGrid, reproductionQueue, cellEvolution, cellTick, cellTrace>>
    /\ UNCHANGED <<coreVars, ecoVars, neuralVars, aiVars, streamVars, frameVars>>

NextSnapshot == CellStep \/ CellGetState

SpecSnapshot == InitCellular /\ [][NextSnapshot]_vars

(***************************************************************************)
(* SpecAges: an ecosystem, a neural network and a cellular grid side by    *)
(* side, each advanced by its own update(), in any interleaving.           *)
(***************************************************************************)
MaxAgeTicks == 4         \* update() calls per run, over the three simulations

AgesEcoDraws == {BaseDraws, [BaseDraws EXCEPT !.hunt = 0]}

AgesNeuralDraws == {NeuralBaseDraws, [NeuralBaseDraws EXCEPT !.addNode = 0]}

AgesCellDraws == {CellBaseDraws, [CellBaseDraws EXCEPT !.sample = "checker", !.gene = 0]}

\* one ecosystem, one neural network and one cellular grid of the seeds
InitThreeSimulations ==
    /\ InitEco
    /\ populations = [EmptyPopulations EXCEPT
                         !["predator"] = <<Seed(1, "predator", 400, 300, 999, 0, 667)>>,
                         !["producer"] = <<Seed(2, "producer", 410, 300, 0, 0, 667)>>]
    /\ nodes = SeedNodes(100, 900)
    /\ neuralMetrics = updateMetrics(SeedNodes(100, 900), 0)
    /\ neuralTick = 0
    /\ InitCellsWith({<<0, 0>>, <<0, 1>>, <<1, 0>>, <<1, 1>>, <<2, 2>>}, 2, 999)

InitAges ==
    /\ CoreAt(1)
    /\ InitThreeSimulations
    /\ IdleAI /\ IdleStreams /\ InitFrames

AgesTicks == ecoTick + neuralTick + cellTick

AgesEcoStep ==
    /\ AgesTicks < MaxAgeTicks
    /\ \E d \in AgesEcoDraws : EcoUpdate(parameters, d)
    /\ UNCHANGED <<coreVars, neuralVars, cellVars, aiVars, streamVars, frameVars>>

AgesNeuralStep ==
    /\ AgesTicks < MaxAgeTicks
    /\ \E d \in AgesNeuralDraws : NeuralUpdate(evolution.time, parameters, d)
    /\ UNCHANGED <<coreVars, ecoVars, cellVars, aiVars, streamVars, frameVars>>

AgesCellStep ==
    /\ AgesTicks < MaxAgeTicks
    /\ \E d \in AgesCellDraws : CellsUpdate(evolution.time, parameters, d)
    /\ UNCHANGED <<coreVars, ecoVars, neuralVars, aiVars, streamVars, frameVars>>

NextAges == AgesEcoStep \/ AgesNeuralStep \/ AgesCellStep

SpecAges == InitAges /\ [][NextAges]_vars

(***************************************************************************)
(* SpecLifecycle: the lifecycle scenario.  One population seeded with two  *)
(* entities at energy 1.0 of maxEnergy 1.0, cooldown 0, age 100, and       *)
(* config.reproductionRate forced to 1.0 before update() is called.        *)
(***************************************************************************)
LifecycleSeed(id, type, x, g) ==
    [Seed(id, type, x, 300, g, 100, 1000) EXCEPT !.energy = 1000, !.maxEnergy = 1000]

LifecyclePopulations ==
    { [EmptyPopulations EXCEPT ![t] = <<LifecycleSeed(1, t, 400, g1),
                                        LifecycleSeed(2, t, 400 + gap, g2)>>]
        : t \in EntityTypeNames, g1 \in GeneDraws, g2 \in GeneDraws, gap \in {0, 30, 200} }

InitLifecycle ==
    /\ InitCore
    /\ IdleNeural
    /\ IdleCells
    /\ IdleAI /\ IdleStreams /\ InitFrames
    /\ populations \in LifecyclePopulations
    /\ environment = InitialEnvironment
    /\ ecoConfig = [InitialEcoConfig EXCEPT !.reproductionRate = 1000]
    /\ ecoEvolution = InitialEcoEvolution
    /\ graveyard = << >>
    /\ nextEntityId = 3
    /\ ecoTick = 0
    /\ ecoTrace = EmptyEcoTrace

SpecLifecycle == InitLifecycle /\ [][NextEco]_vars

(***************************************************************************)
(* SpecAI: frames in the mode 'aiExperience' some time into a run:         *)
(* evolve() on the core, then AIExperienceSimulation.update().             *)
(***************************************************************************)
\* the attractors after k phase transitions whose draws were rf and ra
RECURSIVE AttractorAfter(_, _, _)
AttractorAfter(k, rf, ra) ==
    IF k = 0 THEN InitialAttractor
    ELSE [p \in Params |-> PerturbedAttractor(AttractorAfter(k - 1, rf, ra)[p], rf[p], ra[p])]

\* the core after `time` evolve() calls, the k-th phase transition being
\* the last one made (the transitions are made at the ticks 1501, 3002, ...)
CoreAfter(k, rf, ra, time) ==
    /\ parameters = [p \in Params |->
                        EvolvedParameter(AttractorAfter(k, rf, ra)[p], time, 1047 * k)]
    /\ evolution = [time |-> time, cycle |-> k, phaseShift |-> 1047 * k,
                    lastTransition |-> (PhaseTransitionThreshold + 1) * k]
    /\ attractor = AttractorAfter(k, rf, ra)

\* draws of (Math.random() - 0.5) that leave an attractor as it is, and
\* draws that raise its frequency and its amplitude the most
MidDraws == [p \in Params |-> 500]

HighDraws == [p \in Params |-> 999]

\* coherence is about 0.71 at tick 1400 and about 0.27 at tick 6544
AIStarts == {[k |-> 0, time |-> 1400], [k |-> 4, time |-> 6544]}

InitAIExperience ==
    /\ \E start \in AIStarts : CoreAfter(start.k, MidDraws, MidDraws, start.time)
    /\ InitAI
    /\ IdleStreams
    /\ InitFrames
    /\ IdleEco
    /\ IdleNeural
    /\ IdleCells

AIStep ==
    /\ aiTick < MaxAITicks
    /\ \E d \in AIDrawProfiles :
       \E c \in {Evolved(CoreObject, MidDraws, MidDraws)} :
          /\ evolution' = c.evolution
          /\ attractor' = c.attractor
          /\ AIUpdate(c.evolution.time, c.parameters, d)
    /\ UNCHANGED <<ecoVars, neuralVars, cellVars, streamVars, frameVars>>

NextAI == AIStep

SpecAI == InitAIExperience /\ [][NextAI]_vars

(***************************************************************************)
(* SpecStreams: frames in the mode 'consciousness' some time into a run:   *)
(* evolve() on the core, then ConsciousnessStreamSimulation.update();      *)
(* render() and reset() between them.                                      *)
(***************************************************************************)
\* the second start has the update at tick 1500, a consciousness shift
StreamStartTimes == {1400, 1499}

InitConsciousnessStreams ==
    /\ \E time \in StreamStartTimes : CoreAt(time)
    /\ InitStreams
    /\ InitFrames
    /\ IdleEco
    /\ IdleNeural
    /\ IdleCells
    /\ IdleAI

StreamStep ==
    /\ streamTick < MaxStreamTicks
    /\ \E d \in StreamDrawProfiles :
       \E c \in {Evolved(CoreObject, MidDraws, MidDraws)} :
          /\ parameters' = c.parameters
          /\ evolution' = c.evolution
          /\ attractor' = c.attractor
          /\ StreamsUpdate(c.evolution.time, c.parameters, d)
    /\ UNCHANGED <<ecoVars, neuralVars, cellVars, aiVars, frameVars>>

StreamRenderStep ==
    /\ streamTick < MaxStreamTicks
    /\ StreamsRender
    /\ UNCHANGED <<coreVars, ecoVars, neuralVars, cellVars, aiVars, frameVars>>

StreamResetStep ==
    /\ streamTick < MaxStreamTicks
    /\ \E d \in StreamDrawProfiles : StreamsReset(parameters, d)
    /\ UNCHANGED <<coreVars, ecoVars, neuralVars, cellVars, aiVars, frameVars>>

NextStreams == StreamStep \/ StreamRenderStep \/ StreamResetStep

SpecStreams == InitConsciousnessStreams /\ [][NextStreams]_vars

(***************************************************************************)
(* SpecDiffusion: the diffusion step of updateUncertaintyField on its own, *)
(* applied to an uncertainty field one cell at a time in any order, or to  *)
(* all cells in the order of the two loops.  aiTick counts the steps.      *)
(***************************************************************************)
MaxDiffusionSteps == 3

\* a field whose cells all have the uncertainty `level`, but `hot` at 1
UniformField(level, hot) ==
    [pos \in FieldPositions |->
        [uncertainty |-> IF pos \in hot THEN 1000 ELSE level,
         confidence |-> 500, dx |-> 0, dy |-> 0, lastUpdate |-> 0]]

DiffusionSeeds ==
    {UniformField(500, {})} \cup {UniformField(0, {pos}) : pos \in FieldPositions}

InitDiffusion ==
    /\ InitCore
    /\ IdleEco /\ IdleNeural /\ IdleCells /\ IdleStreams /\ InitFrames
    /\ processingThreads = << >>
    /\ attentionNodes = << >>
    /\ uncertaintyField \in DiffusionSeeds
    /\ contextStack = << >>
    /\ patternCascades = << >>
    /\ emergentInsights = << >>
    /\ sharedContextWindow = << >>
    /\ aiGlobal = InitialAIGlobal
    /\ metaCognition = << >>
    /\ uncertaintyWaves = << >>
    /\ aiClock = 0
    /\ aiTick = 0
    /\ aiTrace = EmptyAITrace
    /\ metaObject = 0
    /\ reflectionTimers = << >>

\* the diffusion step on the cells in the order of the loops, x outer and y
\* inner, from the k-th cell on; the cells are updated in place
RECURSIVE DiffuseFrom(_, _)
DiffuseFrom(field, k) ==
    IF k >= gridSize * gridSize THEN field
    ELSE DiffuseFrom([field EXCEPT ![<<k \div gridSize, k % gridSize>>] =
                                       Diffused(field, <<k \div gridSize, k % gridSize>>)],
                     k + 1)

DiffusionUnchanged ==
    UNCHANGED <<coreVars, ecoVars, neuralVars, cellVars, streamVars, frameVars,
                processingThreads, attentionNodes, contextStack, patternCascades,
                emergentInsights, sharedContextWindow, aiGlobal, metaCognition,
                uncertaintyWaves, aiClock, aiTrace, metaObject, reflectionTimers>>

DiffuseCell ==
    /\ aiTick < MaxDiffusionSteps
    /\ \E pos \in FieldPositions :
          uncertaintyField' = [uncertaintyField EXCEPT ![pos] = Diffused(uncertaintyField, pos)]
    /\ aiTick' = aiTick + 1
    /\ DiffusionUnchanged

DiffuseAll ==
    /\ aiTick < MaxDiffusionSteps
    /\ uncertaintyField' = DiffuseFrom(uncertaintyField, 0)
    /\ aiTick' = aiTick + 1
    /\ DiffusionUnchanged

NextDiffusion == DiffuseCell \/ DiffuseAll

SpecDiffusion == InitDiffusion /\ [][NextDiffusion]_vars

(***************************************************************************)
(* SpecMeta: the recursive depth of the meta-cognition under update(),     *)
(* triggerSelfReflection(), the callbacks it hands to setTimeout, and      *)
(* reset(), in any order.  A callback runs some time after its call; the   *)
(* timers have the same delay, so they run in the order of the calls.      *)
(***************************************************************************)
\* the most callbacks pending at a time
MaxPendingReflections == 6
\* the most threads triggerSelfReflection() adds in a run
MaxReflectionThreads == 6
\* the most metaCognition objects made in a run
MaxMetaObjects == 2

\* initializeAttentionSystem()
initializeAttentionSystem(d) ==
    [i \in 1..maxAttentionNodes |->
        [createAttentionNode(d) EXCEPT !.strength = d.gene,
                                       !.oscillation = MulMilli(d.gene, TwoPiMilli)]]

\* initializeUncertaintyField()
initializeUncertaintyField(d) ==
    [pos \in FieldPositions |->
        [uncertainty |-> d.gene, confidence |-> d.gene, dx |-> 0, dy |-> 0, lastUpdate |-> 0]]

\* the thread triggerSelfReflection() creates and retargets
ReflectionThread(id, d) ==
    [createProcessingThread(id, d) EXCEPT
        !.currentTask = [type |-> "self_reflection",
                         complexity |-> 800 + MulMilli(d.complexity, 200),
                         timeRemaining |-> 100000 + d.duration * 200,
                         requiredConfidence |-> 300]]

\* the draws of a triggerSelfReflection()
ReflectionDraws == {[AIBaseDraws EXCEPT !.complexity = 999, !.duration = 0]}

\* meta.recursiveDepth++
Deepened(meta) == [meta EXCEPT !.recursiveDepth = @ + 1]

\* meta.recursiveDepth = Math.max(0, meta.recursiveDepth - 1)
Surfaced(meta) == [meta EXCEPT !.recursiveDepth = Max(0, @ - 1)]

\* triggerSelfReflection()
TriggerSelfReflection ==
    /\ metaCognition # << >>
    /\ Len(reflectionTimers) < MaxPendingReflections
    /\ Len(processingThreads) < maxProcessingThreads + MaxReflectionThreads
    /\ \E d \in ReflectionDraws :
        processingThreads' =
            Append(processingThreads, ReflectionThread(Len(processingThreads) + 1, d))
    /\ metaCognition' = <<Deepened(metaCognition[1])>>
    /\ reflectionTimers' = Append(reflectionTimers, metaObject)
    /\ UNCHANGED <<attentionNodes, uncertaintyField, contextStack, patternCascades,
                   emergentInsights, sharedContextWindow, aiGlobal, uncertaintyWaves,
                   aiClock, aiTick, aiTrace, metaObject>>
    /\ UNCHANGED <<coreVars, ecoVars, neuralVars, cellVars, streamVars, frameVars>>

\* the callback of the oldest pending timer: it changes the object it
\* captured, which reset() may have replaced since
ReflectionTimeout ==
    /\ reflectionTimers # << >>
    /\ reflectionTimers' = Tail(reflectionTimers)
    /\ metaCognition' = IF Head(reflectionTimers) = metaObject
                        THEN <<Surfaced(metaCognition[1])>>
                        ELSE metaCognition
    /\ UNCHANGED <<processingThreads, attentionNodes, uncertaintyField, contextStack,
                   patternCascades, emergentInsights, sharedContextWindow, aiGlobal,
                   uncertaintyWaves, aiClock, aiTick, aiTrace, metaObject>>
    /\ UNCHANGED <<coreVars, ecoVars, neuralVars, cellVars, streamVars, frameVars>>

\* reset(), which is initialize()
AIReset ==
    /\ metaObject < MaxMetaObjects
    /\ \E d \in {AIBaseDraws} :
        /\ processingThreads' = [i \in 1..maxProcessingThreads |-> createProcessingThread(i, d)]
        /\ attentionNodes' = initializeAttentionSystem(d)
        /\ uncertaintyField' = initializeUncertaintyField(d)
        /\ metaCognition' = <<initializeMetaCognition(d)>>
    /\ contextStack' = << >>
    /\ patternCascades' = << >>
    /\ emergentInsights' = << >>
    /\ sharedContextWindow' = << >>
    /\ metaObject' = metaObject + 1
    /\ UNCHANGED <<aiGlobal, uncertaintyWaves, aiClock, aiTick, aiTrace, reflectionTimers>>
    /\ UNCHANGED <<coreVars, ecoVars, neuralVars, cellVars, streamVars, frameVars>>

InitMeta ==
    /\ CoreAfter(0, MidDraws, MidDraws, 1400)
    /\ InitAIWith(500, FALSE, 0, 360)
    /\ IdleStreams
    /\ InitFrames
    /\ IdleEco
    /\ IdleNeural
    /\ IdleCells

NextMeta ==
    \/ AIStep
    \/ TriggerSelfReflection
    \/ ReflectionTimeout
    \/ AIReset

SpecMeta == InitMeta /\ [][NextMeta]_vars

(***************************************************************************)
(* SpecInitialize: a DigitalEcosystemSimulation as its constructor left    *)
(* it, on which initialize() and reset() are called.                       *)
(***************************************************************************)
\* the resource patches initializeEnvironment() creates: the loop bound
\* canvas.width * canvas.height * config.resourceDensity / 5000 (68 in the
\* program)
resourcePatches == 2

\* the most entity ids a run hands out
MaxEntityIds == 120

\* entitiesPerType of initializePopulations()
entitiesPerType == entityCount \div Len(TypeOrder)

\* initializeEnvironment(); d.envChange: the draw of the toxin event
initializeEnvironment(s, d) ==
    [s EXCEPT
        !.resources = @ \o [i \in 1..resourcePatches |->
            [x |-> d.pos.x, y |-> d.pos.y, value |-> 10000 + d.gene * 20,
             regeneration |-> 50 + d.gene \div 10]],
        !.toxins = IF d.envChange < 100
                   THEN Append(@, [x |-> d.pos.x, y |-> d.pos.y, radius |-> 20000 + d.gene * 50,
                                   toxicity |-> 300 + d.gene \div 2, decay |-> 20])
                   ELSE @]

\* the entities initializePopulations() pushes to the population of the
\* k-th type
Founders(s, k, d) ==
    [i \in 1..entitiesPerType |->
        createEntity(s.nextId + (k - 1) * entitiesPerType + i - 1, TypeOrder[k], FALSE,
                     [genetics |-> FreshGenetics(TypeOrder[k], d.gene)], 0, d)]

\* initializePopulations()
initializePopulations(s, d) ==
    [s EXCEPT
        !.pops = [t \in EntityTypeNames |->
                    @[t] \o Founders(s, CHOOSE k \in 1..Len(TypeOrder) : TypeOrder[k] = t, d)],
        !.nextId = @ + entitiesPerType * Len(TypeOrder)]

\* initialize()
ecoInitialize(s, d) == initializePopulations(initializeEnvironment(s, d), d)

\* reset(): clears the populations, the environment and the metrics, then
\* initialize()
ecoReset(s, d) ==
    ecoInitialize([s EXCEPT !.pops = EmptyPopulations,
                            !.resources = << >>, !.toxins = << >>,
                            !.temperature = 500, !.oxygen = 800, !.nutrients = 600,
                            !.avgFitness = 0, !.diversity = 0, !.cooperation = 0,
                            !.competition = 0, !.complexity = 0], d)

\* the simulation becomes s by the operation op, which is not update()
EcoBecomes(s, op) ==
    /\ populations' = s.pops
    /\ environment' = [resources |-> s.resources, toxins |-> s.toxins,
                       temperature |-> s.temperature, oxygen |-> s.oxygen,
                       nutrients |-> s.nutrients]
    /\ ecoEvolution' = [cooperation |-> s.cooperation, competition |-> s.competition,
                        avgFitness |-> s.avgFitness, diversity |-> s.diversity,
                        complexity |-> s.complexity]
    /\ nextEntityId' = s.nextId
    /\ ecoTrace' = [EmptyEcoTrace EXCEPT !.op = op]
    /\ UNCHANGED <<ecoConfig, graveyard, ecoTick>>

InitializeDraws ==
    { BaseDraws,
      [BaseDraws EXCEPT !.envChange = 0, !.gene = 999, !.pos = [x |-> 100000, y |-> 500000]],
      [BaseDraws EXCEPT !.gene = 0, !.wx = 0, !.wy = 999] }

EcoInitialize ==
    /\ nextEntityId + entitiesPerType * Len(TypeOrder) <= MaxEntityIds
    /\ \E d \in InitializeDraws : EcoBecomes(ecoInitialize(EcoObject(parameters), d), "initialize")
    /\ UNCHANGED <<coreVars, neuralVars, cellVars, aiVars, streamVars, frameVars>>

EcoReset ==
    /\ nextEntityId + entitiesPerType * Len(TypeOrder) <= MaxEntityIds
    /\ \E d \in InitializeDraws : EcoBecomes(ecoReset(EcoObject(parameters), d), "reset")
    /\ UNCHANGED <<coreVars, neuralVars, cellVars, aiVars, streamVars, frameVars>>

\* the simulation after its constructor: the fields as declared, then
\* initialize()
InitConstructed ==
    /\ InitCore
    /\ \E d \in InitializeDraws :
       \E s \in {ecoInitialize([pops |-> EmptyPopulations, resources |-> << >>,
                                toxins |-> << >>, nextId |-> 1], d)} :
          /\ populations = s.pops
          /\ environment = [InitialEnvironment EXCEPT !.resources = s.resources,
                                                      !.toxins = s.toxins]
          /\ nextEntityId = s.nextId
    /\ ecoConfig = InitialEcoConfig
    /\ ecoEvolution = InitialEcoEvolution
    /\ graveyard = << >>
    /\ ecoTick = 0
    /\ ecoTrace = [EmptyEcoTrace EXCEPT !.op = "initialize"]
    /\ IdleNeural /\ IdleCells /\ IdleAI /\ IdleStreams /\ InitFrames

NextInitialize == EcoInitialize \/ EcoReset

SpecInitialize == InitConstructed /\ [][NextInitialize]_vars

(***************************************************************************)
(* SpecNullMeta: update() called on an AI experience whose metaCognition   *)
(* is null, the value the constructor gives the field before               *)
(* initializeMetaCognition() assigns it and the value the guards of        *)
(* updateMetaCognition(), triggerSelfReflection(), getState() test for.    *)
(***************************************************************************)
InitNullMeta ==
    /\ \E start \in AIStarts : CoreAfter(start.k, MidDraws, MidDraws, start.time)
    /\ \E c \in SeedConfidences, mixed \in BOOLEAN, m \in SeedModes, g \in SeedGenes :
          processingThreads = SeedThreads(c, mixed, m, g)
    /\ attentionNodes = SeedAttentionNodes
    /\ uncertaintyField = SeedField
    /\ contextStack = << >>
    /\ patternCascades = << >>
    /\ emergentInsights = << >>
    /\ sharedContextWindow = << >>
    /\ aiGlobal = InitialAIGlobal
    /\ metaCognition = << >>
    /\ uncertaintyWaves = << >>
    /\ aiClock = 0
    /\ aiTick = 0
    /\ aiTrace = EmptyAITrace
    /\ metaObject = 0
    /\ reflectionTimers = << >>
    /\ IdleStreams /\ InitFrames /\ IdleEco /\ IdleNeural /\ IdleCells

SpecNullMeta == InitNullMeta /\ [][NextAI]_vars

(***************************************************************************)
(* SpecReproduction: update() on a population of four producers out of    *)
(* each other's reach, each of them ready to                               *)
(* reproduce or held back by one of the three conditions of the filter,    *)
(* and one consumer that is ready but alone in its population.             *)
(***************************************************************************)
ReadinessKinds == {"ready", "cooling", "lastTick", "young", "hungry"}

\* an entity some time into its life: "cooling" reproduced 50 updates ago,
\* "lastTick" 99 updates ago, "young" is 49 updates old, "hungry" has two
\* thirds of its energy left
ReadinessSeed(id, type, x, kind) ==
    [Seed(id, type, x, 100, 500, IF kind = "young" THEN 49 ELSE 100,
          IF kind = "hungry" THEN 667 ELSE 950)
        EXCEPT !.reproductionCooldown = CASE kind = "cooling" -> 50
                                          [] kind = "lastTick" -> 1
                                          [] OTHER -> 0]

ReproductionPopulations ==
    { [EmptyPopulations EXCEPT
          !["producer"] = [i \in 1..4 |-> ReadinessSeed(i, "producer", 60 * i, kinds[i])],
          !["consumer"] = <<ReadinessSeed(5, "consumer", 700, "ready")>>]
        : kinds \in [1..4 -> ReadinessKinds] }

InitReproduction ==
    /\ InitCore
    /\ IdleNeural
    /\ IdleCells
    /\ IdleAI /\ IdleStreams /\ InitFrames
    /\ populations \in ReproductionPopulations
    /\ environment = InitialEnvironment
    /\ ecoConfig = InitialEcoConfig
    /\ ecoEvolution = InitialEcoEvolution
    /\ graveyard = << >>
    /\ nextEntityId = 6
    /\ ecoTick = 0
    /\ ecoTrace = EmptyEcoTrace

SpecReproduction == InitReproduction /\ [][NextEco]_vars

(***************************************************************************)
(* SpecBehavior: update() on one consumer and what is around it: a         *)
(* resource patch or none, and no neighbour, a predator, a consumer, three *)
(* consumers or a symbiont within its sight.                               *)
(***************************************************************************)
Temperaments == {"mild", "social", "fierce"}

Surroundings == {"alone", "predator", "mate", "crowd", "symbiont"}

\* an entity whose aggression and cooperation traits it inherited mutated
BehaviorSeed(id, type, x, temperament, fullness, cooldown) ==
    LET e == Seed(id, type, x, 300, 500, 100, fullness)
    IN  [e EXCEPT !.genetics.aggression = IF temperament = "fierce" THEN 700 ELSE 200,
                  !.genetics.cooperation = IF temperament = "social" THEN 700 ELSE 200,
                  !.reproductionCooldown = cooldown]

Neighbours(around) ==
    CASE around = "alone" -> EmptyPopulations
      [] around = "predator" ->
            [EmptyPopulations EXCEPT !["predator"] = <<BehaviorSeed(2, "predator", 430, "mild", 950, 0)>>]
      [] around = "mate" ->
            [EmptyPopulations EXCEPT !["consumer"] = <<BehaviorSeed(2, "consumer", 430, "mild", 667, 50)>>]
      [] around = "crowd" ->
            [EmptyPopulations EXCEPT !["consumer"] =
                [i \in 1..3 |-> BehaviorSeed(i + 1, "consumer", 400 + 10 * i, "mild", 667, 50)]]
      [] around = "symbiont" ->
            [EmptyPopulations EXCEPT !["symbiont"] = <<BehaviorSeed(2, "symbiont", 430, "mild", 667, 50)>>]

BehaviorPopulations ==
    { [Neighbours(around) EXCEPT
          !["consumer"] = <<BehaviorSeed(1, "consumer", 400, temperament, fullness, cooldown)>> \o @]
        : around \in Surroundings, temperament \in Temperaments,
          fullness \in {300, 950}, cooldown \in {0, 50} }

InitBehavior ==
    /\ InitCore
    /\ IdleNeural
    /\ IdleCells
    /\ IdleAI /\ IdleStreams /\ InitFrames
    /\ populations \in BehaviorPopulations
    /\ \E food \in BOOLEAN :
          environment = [InitialEnvironment EXCEPT
                            !.resources = IF food THEN <<ResourceAt(420, 300)>> ELSE << >>]
    /\ ecoConfig = InitialEcoConfig
    /\ ecoEvolution = InitialEcoEvolution
    /\ graveyard = << >>
    /\ nextEntityId = 5
    /\ ecoTick = 0
    /\ ecoTrace = EmptyEcoTrace

SpecBehavior == InitBehavior /\ [][NextEco]_vars

(***************************************************************************)
(* SpecBuffers: NeuralNetworkSimulation.update() on the three-node network *)
(* some updates into a run, when the history buffers of its nodes have     *)
(* filled up.                                                              *)
(***************************************************************************)
\* the learning events node 0 holds: one below its limit, or at it
SeedLearningEvents == {19, 20}

\* the seed network after updates that left node 0 `events` learning events
\* and every node a full activation history
LateNodes(a0, a1, events) ==
    [id \in 0..2 |->
        [SeedNodes(a0, a1)[id] EXCEPT
            !.activationHistory = [k \in 1..50 |-> SeedNodes(a0, a1)[id].activation],
            !.learningEvents = [k \in 1..(IF id = 0 THEN events ELSE 0) |-> "strengthen"],
            !.age = 60]]

InitBuffers ==
    /\ \E time \in NeuralStartTimes : CoreAt(time)
    /\ \E a0 \in SeedActivations, a1 \in SeedActivations, events \in SeedLearningEvents :
          /\ nodes = LateNodes(a0, a1, events)
          /\ neuralMetrics = updateMetrics(LateNodes(a0, a1, events), 0)
    /\ neuralTick = 0
    /\ IdleEco
    /\ IdleCells
    /\ IdleAI /\ IdleStreams /\ InitFrames

SpecBuffers == InitBuffers /\ [][NextNeural]_vars

(***************************************************************************)
(* SpecConnections: a network as NeuralNetworkSimulation.initialize()      *)
(* built it with its lower connection counts, then update() and reset(),   *)
(* which is initialize() with any of its draws, called on it.              *)
(***************************************************************************)
MaxInitialNodes == 10    \* nodes initialize() creates: config.nodeCount, 150 in the program

\* the Math.random() outcomes of one initialize(): the activation every node
\* starts with, the draw of connectionCount, and the draws of the targets of
\* node i, which fall on the nodes i + first, i + first + stride, ...
InitializeNetworkDraws ==
    { [activation |-> a, count |-> c, first |-> f, stride |-> s, strength |-> 500, plast |-> 5]
        : a \in SeedActivations, c \in {0, 500, 999}, f \in {0, 1}, s \in {0, 1, 3} }

\* the j-th Math.random() of the target loop of node i, in thousandths
TargetDraw(d, i, j) ==
    (((i + d.first + j * d.stride) % MaxInitialNodes) * 1000 + MaxInitialNodes - 1)
        \div MaxInitialNodes

\* initialize(), "Create initial connections", of the node n: the draws
\* j, ..., connectionCount - 1
RECURSIVE ConnectFrom(_, _, _, _)
ConnectFrom(n, connectionCount, j, d) ==
    IF j >= connectionCount THEN n
    ELSE LET targetId == (TargetDraw(d, n.id, j) * MaxInitialNodes) \div 1000
         IN  ConnectFrom(IF targetId # n.id THEN addConnection(n, targetId, d.strength, d.plast)
                         ELSE n,
                         connectionCount, j + 1, d)

\* initialize(): the nodes 0 .. nodeCount - 1 scattered over the canvas,
\* each with Math.floor(Math.random() * maxConnections) + 2 target draws
neuralInitialize(d) ==
    [id \in 0..(MaxInitialNodes - 1) |->
        ConnectFrom(NeuralNode(id, 100000 + 150000 * (id % 4), 100000 + 150000 * (id \div 4),
                               d.activation, 15, 0, 5),
                    (d.count * maxConnections) \div 1000 + 2, 0, d)]

InitConnections ==
    /\ \E time \in NeuralStartTimes : CoreAt(time)
    /\ \E d \in {i \in InitializeNetworkDraws : i.count < 999} :
          /\ nodes = neuralInitialize(d)
          /\ neuralMetrics = updateMetrics(neuralInitialize(d), 0)
    /\ neuralTick = 0
    /\ IdleEco
    /\ IdleCells
    /\ IdleAI /\ IdleStreams /\ InitFrames

\* reset(): initialize() again
NeuralReset ==
    /\ neuralTick < MaxNeuralTicks
    /\ \E d \in InitializeNetworkDraws :
          /\ nodes' = neuralInitialize(d)
          /\ neuralMetrics' = updateMetrics(neuralInitialize(d), neuralMetrics.learningEvents)
    /\ neuralTick' = neuralTick + 1
    /\ UNCHANGED <<coreVars, ecoVars, cellVars, aiVars, streamVars, frameVars>>

NextConnections == NeuralStep \/ NeuralReset

SpecConnections == InitConnections /\ [][NextConnections]_vars

(***************************************************************************)
(* SpecFading: update() called for as long as an insight or a cascade      *)
(* takes to fade.  The first MaxAITicks updates take any of the draw       *)
(* profiles, so that insights and cascades are created; the later ones     *)
(* take the draws that create none.  The animation loop requests a frame   *)
(* at the end of every frame and so keeps calling update(): the weak       *)
(* fairness of SpecFading.                                                 *)
(***************************************************************************)
MaxFadeTicks == 240      \* update() calls per run

FadeStep ==
    /\ aiTick < MaxFadeTicks
    /\ \E d \in IF aiTick < MaxAITicks THEN AIDrawProfiles ELSE {AIBaseDraws} :
       \E c \in {Evolved(CoreObject, MidDraws, MidDraws)} :
          /\ evolution' = c.evolution
          /\ attractor' = c.attractor
          /\ AIUpdate(c.evolution.time, c.parameters, d)
    /\ UNCHANGED <<ecoVars, neuralVars, cellVars, streamVars, frameVars>>

NextFading == FadeStep

\* the simulation some updates after its construction, its threads confident
InitFading ==
    /\ CoreAfter(0, MidDraws, MidDraws, 1400)
    /\ \E m \in SeedModes, g \in SeedGenes : InitAIWith(999, FALSE, m, g)
    /\ IdleStreams
    /\ InitFrames
    /\ IdleEco
    /\ IdleNeural
    /\ IdleCells

\* one more update() is counted.  update() is callable in every state, so
\* that within NextFading this step is a FadeStep and is enabled exactly
\* when FadeStep is
Advance == aiTick < MaxFadeTicks /\ aiTick' = aiTick + 1

SpecFading == InitFading /\ [][NextFading]_vars /\ WF_aiTick(Advance)

(***************************************************************************)
(* SpecPopulation: NeuralNetworkSimulation.update() on networks as large   *)
(* as initialize() builds them and at the two sizes evolveNetwork() stops  *)
(* removing and adding nodes at.                                           *)
(***************************************************************************)
\* the sizes of the seed networks: the least, the initial and the greatest
PopulationSizes == {minNodes, nodeCount, 3 * minNodes}

\* a ring of n nodes, every second of them old enough for replaceOldNode()
PopulationNodes(n) ==
    [id \in 0..(n - 1) |->
        [addConnection(NeuralNode(id, 100000 + 40000 * id, 100000 + 20000 * id, 500,
                                  15, 0, 5), (id + 1) % n, 500, 5)
            EXCEPT !.age = IF id % 2 = 0 THEN 2000 ELSE 0]]

InitPopulation ==
    /\ \E time \in NeuralStartTimes : CoreAt(time)
    /\ \E n \in PopulationSizes :
          /\ nodes = PopulationNodes(n)
          /\ neuralMetrics = updateMetrics(PopulationNodes(n), 0)
    /\ neuralTick = 0
    /\ IdleEco
    /\ IdleCells
    /\ IdleAI /\ IdleStreams /\ InitFrames

SpecPopulation == InitPopulation /\ [][NextNeural]_vars

(***************************************************************************)
(* SpecFrame: the animation loop of the orchestrator some time into a      *)
(* run, in every mode: animate() and switchMode(mode).                     *)
(***************************************************************************)
MaxFrames == 2           \* animate() calls per run

\* the cores a run starts from: before the first phase transition, and
\* after six transitions that raised the amplitudes to their cap, at a tick
\* where evolve() clamps complexity
FrameStarts ==
    {[k |-> 0, draws |-> MidDraws, time |-> 1400], [k |-> 6, draws |-> HighDraws, time |-> 9300]}

FrameSeedConfidences == {500, 999}

InitAnimation ==
    /\ \E start \in FrameStarts : CoreAfter(start.k, start.draws, start.draws, start.time)
    /\ InitThreeSimulations
    /\ \E c \in FrameSeedConfidences : InitAIWith(c, FALSE, 0, 900)
    /\ InitStreamsWith(<<"thought", "emotion", "memory">>, 299, 990, 1)
    /\ InitFrames

\* the elements of an array
Range(seq) == {seq[i] : i \in DOMAIN seq}

\* the simulations updateSimulations() calls update() on, in the order of
\* the calls: the one of the mode, or in the mode 'all' every value of
\* this.simulations, the added one last
UpdateOrder ==
    IF currentMode = "all"
    THEN <<"neural", "cellular", "consciousness", "aiExperience", "ecosystem">>
         \o (IF addedSimulation = "none" THEN << >> ELSE <<"added">>)
    ELSE <<currentMode>>

\* the simulations whose update() threw in the frame that ends: the AI
\* experience when its try block caught an error, the added simulation when
\* its update() throws
Threw ==
    {name \in Range(UpdateOrder) :
        \/ name = "aiExperience" /\ aiTrace'.error # ""
        \/ name = "added" /\ addedSimulation = "throws"}

\* updateSimulations() has no try block, and neither has animate(): what an
\* update() does not catch leaves both
Escaped == "added" \in Range(UpdateOrder) /\ addedSimulation = "throws"

\* updateSimulations(), after evolve() left the core c, and of
\* renderSimulations() the render() that changes a simulation, the one of
\* the consciousness streams, which runs when no exception ended the frame
\* before it.  A simulation is
\* updated in its own mode and in the mode 'all', in the order of
\* this.simulations (neural, cellular, consciousness, aiExperience, ecosystem):
\* the ecosystem reads the parameters as the AI experience left them
updateSimulations(c, dn, dc, de, ds, da) ==
    /\ IF currentMode \in {"neural", "all"}
       THEN NeuralUpdate(c.evolution.time, c.parameters, dn)
       ELSE UNCHANGED neuralVars
    /\ IF currentMode \in {"cellular", "all"}
       THEN CellsUpdate(c.evolution.time, c.parameters, dc)
       ELSE UNCHANGED cellVars
    /\ IF currentMode \in {"consciousness", "all"}
       THEN IF Escaped
            THEN StreamsUpdate(c.evolution.time, c.parameters, ds)
            ELSE StreamsUpdateRender(c.evolution.time, c.parameters, ds)
       ELSE UNCHANGED streamVars
    /\ IF currentMode \in {"aiExperience", "all"}
       THEN AIUpdate(c.evolution.time, c.parameters, da)
       ELSE parameters' = c.parameters /\ UNCHANGED aiVars
    /\ IF currentMode \in {"ecosystem", "all"}
       THEN EcoUpdate(parameters', de)
       ELSE UNCHANGED ecoVars

\* stop() that forgets the request without cancelling it
stopWithoutCancel(o) == [o EXCEPT !.animationId = 0]

\* stop() on the loop o: cancelAnimationFrame(this.animationId), which takes
\* the callback of that id from the pending ones, and this.animationId = null
stop(o) ==
    IF o.animationId # 0
    THEN [animationId |-> 0, pending |-> o.pending \ {o.animationId}]
    ELSE o

\* animate(), called by `by` with the loop as o: evolve(), then
\* updateSimulations(); the rest of the frame, requestAnimationFrame() at
\* its end included, runs when no exception left updateSimulations().  The
\* request of the n-th animate() gets the id n + 1
animate(o, by) ==
    /\ \E da \in AIDrawProfiles :
       \E c \in {Evolved(CoreObject, MidDraws, MidDraws)} :
          /\ evolution' = c.evolution
          /\ attractor' = c.attractor
          /\ updateSimulations(c, NeuralBaseDraws, CellBaseDraws, BaseDraws, StreamBaseDraws, da)
    /\ frameCount' = frameCount + 1
    /\ animationId' = IF Escaped THEN o.animationId ELSE frameCount + 2
    /\ pendingFrames' = IF Escaped THEN o.pending ELSE o.pending \cup {frameCount + 2}
    /\ frameTrace' = [updated |-> Range(UpdateOrder), threw |-> Threw, escaped |-> Escaped,
                      by |-> by]
    /\ UNCHANGED <<currentMode, addedSimulation>>

\* the browser runs a pending animation-frame callback: () => this.animate()
Animate ==
    /\ frameCount < MaxFrames
    /\ \E id \in pendingFrames :
          animate([animationId |-> animationId, pending |-> pendingFrames \ {id}], "frame")

\* switchMode(mode)
SwitchMode ==
    /\ \E mode \in Modes : currentMode' = mode
    /\ UNCHANGED <<coreVars, ecoVars, neuralVars, cellVars, aiVars, streamVars, frameCount,
                   addedSimulation, animationId, pendingFrames, frameTrace>>

\* addSimulation(name, simulation) with a new name: the update() of the
\* simulation returns or throws
AddSimulation ==
    /\ addedSimulation = "none"
    /\ \E behaviour \in {"returns", "throws"} : addedSimulation' = behaviour
    /\ UNCHANGED <<coreVars, ecoVars, neuralVars, cellVars, aiVars, streamVars, currentMode,
                   frameCount, animationId, pendingFrames, frameTrace>>

NextFrame == Animate \/ SwitchMode \/ AddSimulation

SpecFrame == InitAnimation /\ [][NextFrame]_vars

(***************************************************************************)
(* SpecColony: CellularAutomataSimulation.update() some updates into a     *)
(* run, on a grid whose living cells are old enough to reproduce: some     *)
(* rich in energy, some about to starve.                                   *)
(***************************************************************************)
\* the colonies: where the rich cells and where the weak cells live
Colonies ==
    { [rich |-> {<<0, 0>>, <<0, 1>>, <<0, 2>>, <<1, 0>>, <<1, 1>>, <<1, 2>>}, weak |-> {}],
      [rich |-> {<<0, 0>>, <<1, 1>>}, weak |-> {<<2, 2>>}],
      [rich |-> {<<1, 1>>}, weak |-> {<<0, 1>>, <<2, 1>>}] }

\* a cell born 20 updates ago that has the energy e now
MatureCell(t, e) ==
    [birth(CellularCell, 500, t, CellBaseDraws) EXCEPT
        !.age = 20, !.energy = e, !.memory.maxEnergy = Max(@, e)]

\* the grid of a colony, every living cell knowing its neighbourhood as its
\* last update() saw it
ColonyGrid(colony, t) ==
    LET cells == [pos \in Positions |->
                     IF pos \in colony.rich THEN MatureCell(t, 950)
                     ELSE IF pos \in colony.weak THEN MatureCell(t, 20)
                     ELSE CellularCell]
    IN  [pos \in Positions |->
            IF cells[pos].alive THEN CellUpdateEnvironment(cells[pos], getNeighbors(cells, pos))
            ELSE cells[pos]]

InitColony ==
    /\ \E time \in NeuralStartTimes : CoreAt(time)
    /\ \E colony \in Colonies, t \in SeedCellTypes :
          /\ grid = ColonyGrid(colony, t)
          /\ cellEvolution = InitialCellEvolution(ColonyGrid(colony, t))
          /\ cellSnapshot = NoSnapshot(ColonyGrid(colony, t))
    /\ updateGrid = << >>
    /\ reproductionQueue = << >>
    /\ cellTick = 0
    /\ cellTrace = EmptyCellTrace
    /\ IdleEco
    /\ IdleNeural
    /\ IdleAI /\ IdleStreams /\ InitFrames

SpecColony == InitColony /\ [][NextCells]_vars

(***************************************************************************)
(* SpecStarving: update() on two producers within competition range whose  *)
(* energy is nearly spent.                                                 *)
(***************************************************************************)
\* the energy the two producers have left
StarvingEnergies == {120, 130, 140, 150, 160}

\* two producers 10 pixels apart, the first with the energy e left
StarvingPopulations ==
    { [EmptyPopulations EXCEPT
          !["producer"] = <<[Seed(1, "producer", 400, 300, g1, a, 667) EXCEPT !.energy = e],
                            Seed(2, "producer", 410, 300, g2, a, 667)>>]
        : g1 \in GeneDraws, g2 \in GeneDraws, a \in SeedAges, e \in StarvingEnergies }

InitStarving ==
    /\ InitCore
    /\ populations \in StarvingPopulations
    /\ environment = [InitialEnvironment EXCEPT !.resources = << >>]
    /\ ecoConfig = InitialEcoConfig
    /\ ecoEvolution = InitialEcoEvolution
    /\ graveyard = << >>
    /\ nextEntityId = 3
    /\ ecoTick = 0
    /\ ecoTrace = EmptyEcoTrace
    /\ IdleNeural /\ IdleCells /\ IdleAI /\ IdleStreams /\ InitFrames

SpecStarving == InitStarving /\ [][NextEco]_vars

(***************************************************************************)
(* SpecTransition: the animation loop over the ticks 1500 and 1501 of a    *)
(* run, the first the simulations test for and the first at which the      *)
(* core makes a phase transition.                                          *)
(***************************************************************************)
\* the ticks the core has made when the run starts
TransitionStarts == {PhaseTransitionThreshold - 2, PhaseTransitionThreshold - 1}

InitTransition ==
    /\ \E time \in TransitionStarts : CoreAfter(0, MidDraws, MidDraws, time)
    /\ InitThreeSimulations
    /\ \E c \in FrameSeedConfidences : InitAIWith(c, FALSE, 0, 900)
    /\ InitStreamsWith(<<"thought", "emotion", "memory">>, 299, 990, 1)
    /\ InitFrames

SpecTransition == InitTransition /\ [][NextFrame]_vars

(***************************************************************************)
(* SpecLoop: start() and stop() of the orchestrator called between the     *)
(* animation frames of a run, in the mode 'all'.                           *)
(***************************************************************************)
\* start(): stop() when a request is recorded, then animate()
Start ==
    /\ frameCount < MaxFrames
    /\ animate(stop([animationId |-> animationId, pending |-> pendingFrames]), "start")

\* stop()
Stop ==
    /\ \E o \in {stop([animationId |-> animationId, pending |-> pendingFrames])} :
          /\ animationId' = o.animationId
          /\ pendingFrames' = o.pending
    /\ UNCHANGED <<coreVars, ecoVars, neuralVars, cellVars, aiVars, streamVars, currentMode,
                   frameCount, addedSimulation, frameTrace>>

NextLoop == Animate \/ Start \/ Stop \/ AddSimulation

SpecLoop == InitAnimation /\ [][NextLoop]_vars

(***************************************************************************)
(* Properties.                                                             *)
(***************************************************************************)

\* C1: after exactly 3000 evolve() calls on a fresh core, evolution.cycle
\* is 2 (and evolution.time is 3000).
C1_TwoCyclesAfter3000 ==
    evolution.time = 3000 => evolution.cycle = 2

\* C5: after every update() every node's activation is a number in [0,1]
\* (never NaN), nodes without connections or with a short history included.
C5_ActivationDefined ==
    neuralTick >= 1 =>
        \A id \in DOMAIN nodes :
            /\ ~IsNaN(nodes[id].activation)
            /\ 0 <= nodes[id].activation
            /\ nodes[id].activation <= 1000

AllEntities == getAllEntities(populations)

\* C4: after every update() every entity of a population has
\* 0 <= energy <= maxEnergy.
C4_EnergyClamped ==
    ecoTick >= 1 =>
        \A i \in 1..Len(AllEntities) :
            /\ 0 <= AllEntities[i].energy
            /\ AllEntities[i].energy <= AllEntities[i].maxEnergy

\* an ecosystem update() ages every entity it keeps by exactly 1
EntitiesAgeByOne ==
    \A t \in EntityTypeNames :
        \A i \in 1..Len(populations[t]) :
            \A j \in 1..Len(populations'[t]) :
                populations'[t][j].id = populations[t][i].id =>
                    populations'[t][j].age = populations[t][i].age + 1

\* a neural network update() ages every node it keeps by exactly 1
NodesAgeByOne ==
    \A id \in (DOMAIN nodes) \cap (DOMAIN nodes') : nodes'[id].age = nodes[id].age + 1

\* the cell at pos is alive before and after the step and neither died
\* nor was born in it
StaysAlive(pos) ==
    /\ grid[pos].alive /\ grid'[pos].alive
    /\ pos \notin cellTrace'.died /\ pos \notin cellTrace'.born

\* updateCell ran on pos during the step
WasUpdated(pos) == \E k \in 1..Len(cellTrace'.updated) : cellTrace'.updated[k] = pos

InPopulation(pop, id) == \E i \in 1..Len(pop) : pop[i].id = id

Member(pop, id) == pop[CHOOSE i \in 1..Len(pop) : pop[i].id = id]

\* C7: for every pair that reproduced in handleReproduction, parent 1 has
\* 0.7 times the energy it had, parent 2 likewise, both have
\* reproductionCooldown 100, and exactly one entity was appended to their
\* population, whose genetics are the component-wise mean of the parents'
\* genetics (when the offspring's own mutation fired, the mean scaled by
\* at most 5% either way, not below 0.1).
C7_Reproduction ==
    \A k \in 1..Len(ecoTrace.births) :
        LET b == ecoTrace.births[k]
            pop == populations[b.type]
            mean(t) == (b.genetics1[t] + b.genetics2[t]) \div 2
        IN  /\ InPopulation(pop, b.parent1) /\ InPopulation(pop, b.parent2)
            /\ Member(pop, b.parent1).energy * 10 <= b.energy1 * 7
            /\ Member(pop, b.parent1).energy * 10 > b.energy1 * 7 - 10
            /\ Member(pop, b.parent2).energy * 10 <= b.energy2 * 7
            /\ Member(pop, b.parent2).energy * 10 > b.energy2 * 7 - 10
            /\ Member(pop, b.parent1).reproductionCooldown = 100
            /\ Member(pop, b.parent2).reproductionCooldown = 100
            /\ Len(pop) > b.sizeBefore
            /\ pop[b.sizeBefore + 1].id = b.offspring
            /\ Cardinality({i \in 1..Len(pop) : pop[i].id = b.offspring}) = 1
            /\ \A j \in 1..b.sizeBefore : pop[j].id < b.offspring
            /\ \A t \in Traits :
                  LET v == pop[b.sizeBefore + 1].genetics[t]
                  IN  IF b.mutated
                      THEN \/ v = 100
                           \/ /\ v * 1000 >= mean(t) * 950 - 1000
                              /\ v * 1000 <= mean(t) * 1050
                      ELSE v = mean(t)

\* C7 witness: a pair with different genetics reproduced, the offspring unmutated
C7_Witness ==
    \E k \in 1..Len(ecoTrace.births) :
        /\ ~ecoTrace.births[k].mutated
        /\ ecoTrace.births[k].genetics1 # ecoTrace.births[k].genetics2
        /\ ecoTrace.births[k].energy1 > 0

\* the population the lifecycle scenario seeded
LifecyclePopulation == populations[CHOOSE t \in EntityTypeNames : populations[t] # << >>]

\* C8: in the lifecycle scenario one update() leaves the population with 3
\* entities: the two parents at energy 0.7 and one offspring at age 0.
C8_LifecycleAsStated ==
    ecoTick = 1 =>
        /\ Len(LifecyclePopulation) = 3
        /\ LifecyclePopulation[1].energy = 700
        /\ LifecyclePopulation[2].energy = 700
        /\ LifecyclePopulation[3].age = 0

\* C8 (amended): in the lifecycle scenario one update() first ages both
\* entities to 101 and charges them the tick's energy losses; the pair
\* reproduces exactly when both are still above 0.8 of maxEnergy, and then
\* the population has 3 entities, the parents at 0.7 times the energy they
\* had left (below 0.7), cooldown 100, and the offspring at age 0;
\* otherwise the population keeps its 2 entities.
C8_LifecycleAfterDecay ==
    ecoTick = 1 =>
        LET pop == LifecyclePopulation
            births == ecoTrace.births
        IN  /\ pop[1].age = 101 /\ pop[2].age = 101
            /\ IF births # << >>
               THEN /\ Len(pop) = 3
                    /\ births[1].energy1 > 800 /\ births[1].energy1 < 1000
                    /\ births[1].energy2 > 800 /\ births[1].energy2 < 1000
                    /\ pop[1].energy = (births[1].energy1 * 7) \div 10
                    /\ pop[2].energy = (births[1].energy2 * 7) \div 10
                    /\ pop[1].energy < 700 /\ pop[2].energy < 700
                    /\ pop[1].reproductionCooldown = 100
                    /\ pop[2].reproductionCooldown = 100
                    /\ pop[3].age = 0
               ELSE /\ Len(pop) = 2
                    /\ pop[1].energy <= 800 \/ pop[2].energy <= 800

\* C8 witness: the pair reproduced in the tick, the parents below 0.7
C8_Witness ==
    /\ ecoTick = 1
    /\ Len(LifecyclePopulation) = 3
    /\ LifecyclePopulation[1].energy < 700
    /\ LifecyclePopulation[3].age = 0

\* C9: when a hunt succeeds the predator gains 0.3*E and the prey is left
\* with 0.3*E, E the prey's energy before the pair's interaction of that
\* tick; a pair is handled at most once per tick.
C9_HuntOnEnergyBeforeInteraction ==
    /\ \A k \in 1..Len(ecoTrace.interactions) :
          LET l == ecoTrace.interactions[k]
          IN  l.hunted =>
                /\ l.predatorAfter - l.predatorAtHunt = DivT(l.preyBefore * 3, 10)
                /\ l.preyAfter = DivT(l.preyBefore * 3, 10)
    /\ \A j, k \in 1..Len(ecoTrace.interactions) :
          j # k => {ecoTrace.interactions[j].a, ecoTrace.interactions[j].b}
                   # {ecoTrace.interactions[k].a, ecoTrace.interactions[k].b}

\* C9 (amended): when a hunt succeeds the predator gains 0.3*E and the prey
\* is left with 0.3*E, E the prey's energy when the hunt is resolved, which
\* is its energy before the pair's interaction plus the cooperation gain
\* the same interaction may have just granted; a pair is handled at most
\* once per tick, so it gets at most one hunt attempt.
C9_HuntOnEnergyAtHunt ==
    /\ \A k \in 1..Len(ecoTrace.interactions) :
          LET l == ecoTrace.interactions[k]
          IN  /\ l.hunted =>
                    /\ l.preyAtHunt = l.preyBefore + l.gain - l.penalty
                    /\ l.predatorAfter - l.predatorAtHunt = DivT(l.preyAtHunt * 3, 10)
                    /\ l.preyAfter = DivT(l.preyAtHunt * 3, 10)
              /\ ~l.attempt => ~l.hunted
    /\ \A j, k \in 1..Len(ecoTrace.interactions) :
          j # k => {ecoTrace.interactions[j].a, ecoTrace.interactions[j].b}
                   # {ecoTrace.interactions[k].a, ecoTrace.interactions[k].b}

\* C9 witness: a hunt succeeded right after the pair cooperated
C9_Witness ==
    \E k \in 1..Len(ecoTrace.interactions) :
        /\ ecoTrace.interactions[k].hunted
        /\ ecoTrace.interactions[k].gain > 0
        /\ ecoTrace.interactions[k].preyAtHunt > 0

\* C10: the competition penalty applied to a pair is its base magnitude
\* (blended aggression times 0.05) scaled by (1 - distance / radius).
C10_EffectsScaledByDistance ==
    \A k \in 1..Len(ecoTrace.interactions) :
        LET l == ecoTrace.interactions[k]
            distance == ISqrt(l.dist2)                       \* deci-pixels
            scaled(base, radius) == MulMilli(base, 1000 - (distance * 100) \div radius)
        IN  l.competing => l.penalty = scaled(MulMilli(l.aggression, 50), competitionRadius)

\* a quantity in thousandths lies within [0, 1]
InUnit(v) == v >= 0 /\ v <= 1000

\* C3: after every update() of the AI-experience simulation, each thread's
\* confidence, uncertainty and activity, each attention node's strength and
\* each uncertainty-field cell's uncertainty and confidence lie within [0, 1].
C3_ScalarsInUnit ==
    aiTick >= 1 =>
        /\ \A i \in 1..Len(processingThreads) :
              /\ InUnit(processingThreads[i].confidence)
              /\ InUnit(processingThreads[i].uncertainty)
              /\ InUnit(processingThreads[i].activity)
        /\ \A i \in 1..Len(attentionNodes) : InUnit(attentionNodes[i].strength)
        /\ \A pos \in FieldPositions :
              /\ InUnit(uncertaintyField[pos].uncertainty)
              /\ InUnit(uncertaintyField[pos].confidence)

\* C3, the case reached: an update() has left a thread out of reach of the
\* others at confidence 0 and uncertainty 1 (the re-clamp acted on it), an
\* attention node at the strength 0.8 of a context switch, and the field
\* cell next to the first thread raised by it.
C3_Witness ==
    /\ aiTick >= 1
    /\ \E i \in 3..Len(processingThreads) :
          processingThreads[i].confidence = 0 /\ processingThreads[i].uncertainty = 1000
    /\ \E i \in 1..Len(attentionNodes) : attentionNodes[i].strength = 800
    /\ uncertaintyField[<<0, 0>>].confidence > 0

\* C2: after every frame, in any mode, each of the four consciousness
\* parameters lies within [0.1, 0.9].
C2_ParametersInRange ==
    frameCount >= 1 => \A p \in Params : parameters[p] >= 100 /\ parameters[p] <= 900

\* the stream object of this.streams an association refers to
AssociatedStream(id) == streams[StreamIndex(streams, id)]

\* C11: the association set of the consciousness-stream simulation is
\* recomputed on every update(): after an update it holds an association for
\* a pair of streams exactly when both were in this.streams when the update
\* recomputed the set and are within associationRange of each other; every
\* association belongs to two streams still present, none is kept from the
\* update before, and no pair has two.
C11_AssociationsRecomputed ==
    streamTrace.op = "update" =>
        /\ \A k \in 1..Len(associations) :
              /\ associations[k].stream1 \in StreamIds(streams) \cap streamTrace.recomputedOn
              /\ associations[k].stream2 \in StreamIds(streams) \cap streamTrace.recomputedOn
              /\ Within(AssociatedStream(associations[k].stream1),
                        AssociatedStream(associations[k].stream2), associationRange)
        /\ \A i, j \in 1..Len(streams) :
              ( /\ i < j
                /\ {streams[i].id, streams[j].id} \subseteq streamTrace.recomputedOn
                /\ Within(streams[i], streams[j], associationRange) )
              => <<streams[i].id, streams[j].id>> \in AssociationKeys(associations)
        /\ Cardinality(AssociationKeys(associations)) = Len(associations)

\* C11 witness: an update() dropped the association of a pair that moved out
\* of range and one of a stream it removed, and made an association
C11_Witness ==
    /\ streamTrace.op = "update"
    /\ associations # << >>
    /\ \E key \in streamTrace.before \ AssociationKeys(associations) :
          {key[1], key[2]} \subseteq StreamIds(streams)
    /\ \E key \in streamTrace.before : key[2] \notin StreamIds(streams)

\* every cell of the uncertainty field has the uncertainty 0.5
UniformAtHalf(field) == \A pos \in FieldPositions : field[pos].uncertainty = 500

\* C12: a uniform grid is a fixed point of the diffusion step: when every
\* cell (interior, edge and corner) has uncertainty 0.5 before a diffusion
\* step, every cell has uncertainty 0.5 after it, whichever cell is visited.
C12_UniformFixedPoint ==
    [][UniformAtHalf(uncertaintyField) => UniformAtHalf(uncertaintyField')]_vars

\* C12 witness: diffusion steps were applied to the uniform grid at 0.5
C12_Witness == aiTick = MaxDiffusionSteps /\ UniformAtHalf(uncertaintyField)

\* C13: the recursive depth of the meta-cognition stays within
\* [0, maxRecursiveDepth] after any interleaving of update(),
\* triggerSelfReflection(), the delayed callbacks and reset()
C13_DepthWithinBounds ==
    metaCognition # << >> =>
        /\ 0 <= metaCognition[1].recursiveDepth
        /\ metaCognition[1].recursiveDepth <= maxRecursiveDepth

\* C14: when the update() of a simulation throws during a frame, the
\* exception stays with that simulation: it does not leave animate(), every
\* simulation of the frame has its update() called, and the next frame is
\* requested
C14_ExceptionContained ==
    frameTrace.threw # {} =>
        /\ ~frameTrace.escaped
        /\ framePending
        /\ (currentMode = "all" =>
                {"neural", "cellular", "consciousness", "aiExperience", "ecosystem"}
                    \subseteq frameTrace.updated)

\* C15: after every update() of the ecosystem each population holds at most
\* floor(entityCount / 5) * 1.5 entities, and no entity the selection
\* removed has a higher fitness than an entity it kept
C15_CulledAreLeastFit ==
    ecoTick >= 1 =>
        \A t \in EntityTypeNames :
            /\ 2 * Len(populations[t]) <= 3 * (entityCount \div 5)
            /\ \A r \in 1..Len(ecoTrace.culled[t]), k \in 1..Len(populations[t]) :
                  ecoTrace.culled[t][r].fitness <= populations[t][k].fitness

\* an update() whose selection removed an entity of a population and left
\* the population at its cap
C15_Witness ==
    /\ ecoTick >= 1
    /\ \E t \in EntityTypeNames :
          /\ ecoTrace.culled[t] # << >>
          /\ 2 * Len(populations[t]) = 3 * (entityCount \div 5)

\* C16: after every update() of the AI experience the attention pool holds
\* exactly config.maxAttentionNodes nodes
C16_AttentionPoolFixed ==
    aiTick >= 1 => Len(attentionNodes) = maxAttentionNodes

\* C17: only the ConsciousnessCore writes the consciousness state: a step
\* leaves the parameters and the evolution record as they were or as
\* evolve() made them, whatever the simulations and the orchestrator did
C17_OnlyCoreWrites ==
    [][\/ parameters' = parameters /\ evolution' = evolution
       \/ /\ parameters' = Evolved(CoreObject, MidDraws, MidDraws).parameters
          /\ evolution' = Evolved(CoreObject, MidDraws, MidDraws).evolution]_vars

\* C18: initialize() on an initialized simulation, and reset(), leave the
\* populations and the resource list at the sizes a single initialize()
\* gives them: nothing accumulates across calls
C18_InitializeIdempotent ==
    ecoTrace.op \in {"initialize", "reset"} =>
        /\ \A t \in EntityTypeNames : Len(populations[t]) = entitiesPerType
        /\ Len(environment.resources) = resourcePatches

\* C19: the object getState() returned shares nothing with the simulation:
\* whatever update() calls follow, the object reads as it did when the call
\* returned
C19_SnapshotDetached ==
    cellSnapshot.taken => HistoryOf(cellSnapshot.evolution) = cellSnapshot.historyAtCall

\* C20: render() only reads: the memories of the consciousness streams
\* (like every other part of the state) are after a render() what they
\* were before it
C20_RenderReadsOnly ==
    streamTrace.op = "render" => memories = streamTrace.memoriesBefore

\* C21: an update() that finds the meta-cognition null re-initializes it:
\* after the update() metaCognition is not null
C21_MetaCognitionRestored ==
    aiTick >= 1 => metaCognition # << >>

\* the steps of the try block of update(), simulateConsciousnessUncertainty()
\* being the last
UpdateSteps == 10

\* C22: every update() of the AI experience runs all of its steps, up to
\* and including simulateConsciousnessUncertainty(), which creates and
\* maintains the consciousness-uncertainty waves
C22_AllStepsRun ==
    aiTick >= 1 => aiTrace.error = "" /\ aiTrace.completed = UpdateSteps

\* what handleReproduction() asks of a parent, on an entry of the census
MayParent(c) ==
    /\ c.energy * 10 > c.maxEnergy * 8
    /\ c.reproductionCooldown = 0
    /\ c.age > 50

\* the entities of this type that qualified when handleReproduction() ran,
\* in the order of the population
Qualified(t) == SelectSeq(ecoTrace.census[t], MayParent)

BirthsOf(t) == SelectSeq(ecoTrace.births, LAMBDA b : b.type = t)

\* the parents of the births of the last update()
ParentsOf(trace) ==
    {trace.births[n].parent1 : n \in 1..Len(trace.births)}
        \cup {trace.births[n].parent2 : n \in 1..Len(trace.births)}

\* the births of one type are those of pairs (1st, 2nd), (3rd, 4th), ... of
\* the qualified entities, in that order and each pair at most once
PairedInOrder(t) ==
    \A n \in 1..Len(BirthsOf(t)) :
        \E k \in 1..(Len(Qualified(t)) \div 2) :
            /\ BirthsOf(t)[n].parent1 = Qualified(t)[2 * k - 1].id
            /\ BirthsOf(t)[n].parent2 = Qualified(t)[2 * k].id
            /\ \A m \in 1..(n - 1) :
                  \E j \in 1..(k - 1) : BirthsOf(t)[m].parent1 = Qualified(t)[2 * j - 1].id

\* over one update() the cooldown of a retained entity becomes 100 if it
\* was a parent and else runs down by one, not below zero
CooldownRuns ==
    \A t \in EntityTypeNames :
        \A i \in 1..Len(populations[t]), j \in 1..Len(populations'[t]) :
            populations[t][i].id = populations'[t][j].id =>
                populations'[t][j].reproductionCooldown =
                    IF populations[t][i].id \in ParentsOf(ecoTrace')
                    THEN ReproductionCooldown
                    ELSE Max(0, populations[t][i].reproductionCooldown - 1)

\* C23: only entities with energy above 80% of maxEnergy, cooldown 0 and
\* age above 50 become parents; they are paired (1st, 2nd), (3rd, 4th), ...
\* in the order of their population, an unpaired last one does not
\* reproduce, no entity is a parent twice in one update(), and a parent's
\* cooldown is set to 100 and runs down by one per update(), so that it is
\* not a parent again before 100 further updates
C23_ReproductionRules ==
    [][ecoTick' = ecoTick + 1 =>
          /\ \A t \in EntityTypeNames : PairedInOrder(t)'
          /\ CooldownRuns]_vars

\* an update() in which a pair of producers reproduced while a third
\* qualified producer stayed unpaired and a fourth was held back
C23_Witness ==
    /\ Len(BirthsOf("producer")) = 1
    /\ Len(Qualified("producer")) = 3
    /\ Len(ecoTrace.census["producer"]) > 3
    /\ Len(Qualified("consumer")) = 1

\* C24: every pair of entities of the same type closer than
\* competitionRadius loses energy by competition in that update(), both the
\* same amount, 0.05 times the mean of their aggression traits
C24_CompetitionWithinRadius ==
    \A k \in 1..Len(ecoTrace.interactions) :
        LET l == ecoTrace.interactions[k]
        IN  l.sameType /\ l.dist2 < (competitionRadius * 10) * (competitionRadius * 10)
                => l.penalty = MulMilli(l.aggression, 50)

\* the pair is within cooperationRadius
InCooperationRange(l) == l.dist2 < (cooperationRadius * 10) * (cooperationRadius * 10)

\* C25 as stated: the three checks of a pair are independent of each other,
\* so the cooperation check fires on its distance and its blended trait
\* whether or not the competition check fired for the pair
C25_ChecksIndependent ==
    \A k \in 1..Len(ecoTrace.interactions) :
        LET l == ecoTrace.interactions[k]
        IN  InCooperationRange(l) /\ l.affinity > 300 => l.gain > 0

\* C25: competition needs two entities of one type, cooperation two of
\* different types and predation a predator and a prey: competition fires
\* for no pair that cooperation or predation fires for, so at most two of
\* the three checks fire for a pair in an update()
C25_AtMostTwoFire ==
    \A k \in 1..Len(ecoTrace.interactions) :
        LET l == ecoTrace.interactions[k]
        IN  /\ ~(l.competing /\ l.gain > 0)
            /\ ~(l.competing /\ l.attempt)
            /\ l.competing => l.sameType
            /\ l.gain > 0 \/ l.attempt => ~l.sameType

\* an update() in which two of the three fired for a pair: cooperation and
\* the predator's attempt on its prey
C25_Witness ==
    \E k \in 1..Len(ecoTrace.interactions) :
        /\ ecoTrace.interactions[k].gain > 0
        /\ ecoTrace.interactions[k].attempt
        /\ ~ecoTrace.interactions[k].competing

\* C26 as stated: the first matching rule in the order forage, flee, seek
\* mate, cooperate, compete, wander decides the action; an entity low on
\* energy with food nearby that is also threatened is set to foraging
C26_ForageBeforeFlee ==
    \A k \in 1..Len(ecoTrace.decisions) :
        LET l == ecoTrace.decisions[k]
        IN  /\ l.matrix.seek_food => l.action = "foraging"
            /\ ~l.matrix.seek_food /\ l.matrix.avoid_threats => l.action = "fleeing"

\* C26: the first matching rule in the order flee, forage, seek mate,
\* cooperate, compete, wander decides the action; an entity that seeks a
\* mate and has none of its type in sight keeps the action it had
C26_FirstMatchingRule ==
    \A k \in 1..Len(ecoTrace.decisions) :
        LET l == ecoTrace.decisions[k]
        IN  l.action =
                IF l.matrix.avoid_threats THEN "fleeing"
                ELSE IF l.matrix.seek_food THEN "foraging"
                ELSE IF l.matrix.seek_mates
                     THEN IF l.matrix.mates > 0 THEN "mating" ELSE l.before
                ELSE IF l.matrix.cooperate THEN "cooperating"
                ELSE IF l.matrix.compete THEN "competing"
                ELSE "wandering"

\* an update() in which an entity low on energy, with food nearby and
\* threatened, was set to fleeing
C26_Witness ==
    \E k \in 1..Len(ecoTrace.decisions) :
        /\ ecoTrace.decisions[k].matrix.seek_food
        /\ ecoTrace.decisions[k].matrix.avoid_threats
        /\ ecoTrace.decisions[k].action = "fleeing"

\* C27: a generateEmergentInsights() call with at least 3 threads of
\* confidence above 0.8 and activity above 0.7 emits an insight when its
\* random trial succeeds; a call with fewer emits none; no call emits more
\* than one, and an emitted insight names at most 3 of the qualifying threads
C27_InsightFromThree ==
    aiTick >= 1 =>
        LET g == aiTrace.generated
        IN  /\ Len(g.qualifying) >= 3 /\ g.trial => Len(g.insights) = 1
            /\ Len(g.qualifying) < 3 => Len(g.insights) = 0
            /\ Len(g.insights) <= 1
            /\ \A k \in 1..Len(g.insights) :
                  /\ Len(g.insights[k].threads) <= 3
                  /\ Range(g.insights[k].threads) \subseteq Range(g.qualifying)

C30_ConnectionsCapped ==
    \A id \in DOMAIN nodes : Cardinality(DOMAIN nodes[id].connections) <= maxConnections

\* after an update() every retained insight has intensity above 0.1, and
\* every retained cascade intensity above 0.1 and radius below its maxRadius
RetainedAreLive ==
    /\ \A k \in 1..Len(emergentInsights) : emergentInsights[k].intensity > 100
    /\ \A k \in 1..Len(patternCascades) :
          /\ patternCascades[k].intensity > 100
          /\ patternCascades[k].radius < patternCascades[k].maxRadius

\* C29: after every update() each retained insight has intensity above 0.1
\* and each retained cascade intensity above 0.1 and radius below maxRadius,
\* and while update() keeps being called every insight and every cascade
\* is eventually removed
C29_FadeOut ==
    /\ [](aiTick >= 1 => RetainedAreLive)
    /\ (emergentInsights # << >> \/ patternCascades # << >>)
           ~> (emergentInsights = << >> /\ patternCascades = << >>)

\* an emergent insight that has faded to just above 0.1 over the updates
\* since it was generated, and is still retained
C29_Witness ==
    \E k \in 1..Len(emergentInsights) :
        /\ emergentInsights[k].type = "emergent_insight"
        /\ emergentInsights[k].intensity > 100
        /\ emergentInsights[k].intensity < 110
        /\ patternCascades = << >>

\* C31: after initialize() and every update() the network holds at least
\* 0.5 x nodeCount and at most 1.5 x nodeCount nodes.
C31_NodesWithinSoftBounds ==
    /\ 2 * Cardinality(DOMAIN nodes) >= nodeCount
    /\ 2 * Cardinality(DOMAIN nodes) <= 3 * nodeCount

\* an update() added a node to a network one short of the greatest size
C31_Witness ==
    /\ neuralTick > 0
    /\ 2 * Cardinality(DOMAIN nodes) = 3 * nodeCount
    /\ \E id \in DOMAIN nodes : nodes[id].age = 0 /\ id >= 3 * minNodes

\* C32: whatever start() and stop() calls come between the frames, at most
\* one animation-frame callback is pending, none is after stop(), every
\* animate() runs evolve() once, and with no callback pending only start()
\* runs a frame.
C32_SingleLoop ==
    [][/\ Cardinality(pendingFrames') <= 1
       /\ animationId' = 0 => pendingFrames' = {}
       /\ frameCount' # frameCount =>
             /\ evolution'.time = evolution.time + 1
             /\ pendingFrames = {} => frameTrace'.by = "start"
       /\ frameCount' = frameCount => UNCHANGED <<coreVars, ecoVars, neuralVars, cellVars,
                                                  aiVars, streamVars>>]_vars

\* start() on a running loop cancelled the pending callback and left the
\* one its own animate() requested
C32_Witness ==
    /\ frameTrace.by = "start"
    /\ frameCount = 2
    /\ animationId = 3
    /\ pendingFrames = {3}

\* C33: the phase-transition handlers of the simulations run in exactly the
\* frames in which the core makes a phase transition: in a frame that
\* updates the cellular automata, handleEvolutionEvents() triggers its
\* evolution event (one more generation) if and only if evolve()
\* incremented evolution.cycle.
C33_HandlersOnTransitionTicks ==
    [][frameCount' # frameCount /\ "cellular" \in frameTrace'.updated =>
          (cellEvolution'.generation = cellEvolution.generation + 1
              <=> evolution'.cycle = evolution.cycle + 1)]_vars

\* C34: when update() has returned no population holds a dead entity:
\* every entity has energy above 0 and an age below maxAge.
C34_NoDeadEntityAfterUpdate ==
    ecoTrace.op = "update" =>
        \A type \in DOMAIN populations : \A i \in 1..Len(populations[type]) :
            /\ populations[type][i].energy > 0
            /\ populations[type][i].age < maxAge

\* C35: the action updateEntityBehavior() leaves an entity with is the one
\* this tick's decision matrix selects: an entity flees only from a threat
\* found this tick, forages only for food found this tick, and mates,
\* cooperates or competes only when this tick's matrix says so.
C35_ActionDecidedThisTick ==
    \A k \in 1..Len(ecoTrace.decisions) :
        LET decided == ecoTrace.decisions[k]
        IN  /\ decided.action = "fleeing" => decided.matrix.avoid_threats
            /\ decided.action = "foraging" => decided.matrix.seek_food
            /\ decided.action = "mating" => decided.matrix.seek_mates /\ decided.matrix.mates > 0
            /\ decided.action = "cooperating" => decided.matrix.cooperate
            /\ decided.action = "competing" => decided.matrix.compete

\* C36: the simulation never holds more processing threads than
\* config.maxProcessingThreads.
C36_ThreadsWithinCap == Len(processingThreads) <= maxProcessingThreads

\* the number of living cells of the grid
LivingCells == Cardinality({pos \in Positions : grid[pos].alive})

C38_CostOnlyWithOffspring ==
    \A k \in 1..Len(cellTrace.reproduced) :
        cellTrace.reproduced[k].energyAfter < cellTrace.reproduced[k].energyBefore
            <=> cellTrace.reproduced[k].births = 1

\* C39: the marks of an update() are carried to the next one: every cell
\* the last update() marked is processed by updateCell() in this update(),
\* and this update() takes the updateAllCells() fallback only when the last
\* one marked no cell.
C39_MarksCarriedToNextTick ==
    [][cellTick' = cellTick + 1 =>
          /\ \A pos \in cellTrace.marked :
                \E k \in 1..Len(cellTrace'.updated) : cellTrace'.updated[k] = pos
          /\ cellTrace'.fallback => cellTrace.marked = {}]_vars

\* C40: every entity's maxEnergy is 1.5 x its genetics.energy, offspring
\* included, and an entity just created (age 0, not yet updated) has its
\* genetics.energy as energy.
C40_EnergyFromGenetics ==
    \A k \in 1..Len(AllEntities) :
        /\ AllEntities[k].maxEnergy = (AllEntities[k].genetics.energy * 3) \div 2
        /\ AllEntities[k].age = 0 /\ ecoTrace.op = "update" =>
               AllEntities[k].energy = AllEntities[k].genetics.energy

=============================================================================
